---- MODULE Spec2Model ----
(***************************************************************************)
(* A model of the cdk e-cash toolkit: the settings (de)serializers of      *)
(* NUT-04 / NUT-05, the generic quote wire types, the wallet's custom-rail *)
(* melt procedures over its local store, the single-operation transaction  *)
(* wrappers of the database adapters, and the mint-side quote lifecycles.  *)
(*                                                                         *)
(* Each area has its own variables and its own specification; a            *)
(* specification leaves the other areas' variables untouched.              *)
(***************************************************************************)
EXTENDS Integers, Sequences, FiniteSets, TLC

VARIABLES
    \* ---- settings (de)serialization (nut04.rs / nut05.rs)
    sKind,        \* "mint" | "melt": which settings type is being read
    sInput,       \* the JSON object, as the sequence of its members in document order
    sPhase,       \* "building" | "parsed" | "written"
    sResult,      \* result of Deserialize (a settings value or an error)
    sOutput,      \* result of Serialize: the members written, in order
    \* ---- mint quote response deserialization (nut04.rs, nut25.rs)
    jInput,       \* the JSON object of a Bolt12 mint quote response
    jPhase,       \* "input" | "parsed" | "validated"
    jResult,      \* result of from_str
    jValid,       \* results of validate on the fields and on the response
    \* ---- wallet: custom melt quotes over the local store (melt/custom.rs)
    localstore,   \* melt-quote table of the wallet's local store: id -> quote | NoQuote
    wtask,        \* per task: the call in progress and its locals
    \* ---- single-operation transaction wrappers (supabase.rs, ldk/mod.rs)
    kvStore,      \* committed key-value table
    keysetCounter,\* committed derivation counter of the keyset
    proofTable,   \* committed proof table: Y -> state | NoProof
    tx,           \* per task: the wrapper call in progress and its open transaction
    \* ---- mint-side mint quote (spec section 4.3)
    mintQuote,    \* the persisted quote row
    signedOutputs,\* per set of outputs: the amount signed for it, 0 when unsigned
    now,          \* unix time
    issuer,       \* per request: the issuance request in progress
    \* ---- mint-side melt quote (spec section 4.4)
    meltQuote,    \* the persisted melt quote row
    inputProofs,  \* persisted state of the melt's input proofs
    backend,      \* what really happened to the outgoing payment
    meltPc,       \* position of the melt procedure
    timedOut,     \* the last backend call ended without an answer and is unresolved
    \* ---- auth wallet behind its reader/writer lock (wallet/auth/mod.rs)
    authWallet,   \* self.auth_wallet: Option<AuthWallet>
    clientAuthWallet, \* the auth wallet the client holds
    authTokens,   \* tokens the auth wallet holds: "cat", "refresh"
    rwReaders,    \* tasks holding a read guard
    rwWriter,     \* the task holding the write guard, or None
    rwQueue,      \* tasks waiting for the lock, in order of arrival
    atask,        \* per task: the call in progress
    \* ---- Lightning melt quote response and quote state strings (nut23.rs, nut05.rs)
    mrPhase,      \* "start" | "value" | "wire" | "parsed" | "state_parsed" | "state_shown"
    mrValue,      \* a MeltQuoteBolt11Response built in the program
    mrJson,       \* the JSON object on the wire
    mrResult,     \* result of Deserialize
    qsKind,       \* "mint" | "melt": which QuoteState is parsed
    qsInput,      \* the string given to from_str
    qsParsed,     \* result of from_str
    qsShown,      \* to_string of the parsed state
    \* ---- Lightning melt quote request (nut05.rs MeltQuoteRequest, nut23.rs)
    mqPhase,      \* "start" | "value" | "wire" | "parsed"
    mqValue,      \* a MeltQuoteRequest<Bolt11MeltRequestFields> built in the program
    mqJson,       \* the JSON object on the wire
    mqResult,     \* result of Deserialize
    \* ---- total-amount helpers (nut04.rs MintRequest, nut05.rs MeltRequest)
    saPhase,      \* "start" | "built" | "summed"
    saKind,       \* "mint" (outputs of a MintRequest) | "melt" (inputs of a MeltRequest)
    saAmounts,    \* the amounts of the outputs / inputs, in order
    saResult,     \* result of total_amount / inputs_amount
    \* ---- Lightning mint quote request, legacy and generic (nut23.rs, nut04.rs)
    nrPhase,      \* "start" | "built"
    nrArgs,       \* amount, unit, description, pubkey both requests are built from
    nrLegacy,     \* JSON of the MintQuoteBolt11Request, <<>> before it is written
    nrGeneric,    \* JSON of the MintQuoteRequest<Bolt11MintRequestFields>, <<>> before
    \* ---- KV store adapter of the LDK node (cdk-sql-common/src/mint/ldk/mod.rs)
    ldkStore,     \* committed rows: (primary, secondary, key) -> bytes, None when absent
    ldkLast,      \* per row, the last call on it that returned Ok: bytes written, "removed", "never"
    ldkCall       \* the adapter call in progress: position, arguments, open transaction, result

settingsVars == <<sKind, sInput, sPhase, sResult, sOutput>>
jsonVars     == <<jInput, jPhase, jResult, jValid>>
walletVars   == <<localstore, wtask>>
txVars       == <<kvStore, keysetCounter, proofTable, tx>>
mintVars     == <<mintQuote, signedOutputs, now, issuer>>
meltVars     == <<meltQuote, inputProofs, backend, meltPc, timedOut>>
authVars     ==
    <<authWallet, clientAuthWallet, authTokens, rwReaders, rwWriter, rwQueue, atask>>
meltResponseVars ==
    <<mrPhase, mrValue, mrJson, mrResult, qsKind, qsInput, qsParsed, qsShown>>
meltRequestVars == <<mqPhase, mqValue, mqJson, mqResult>>
sumVars == <<saPhase, saKind, saAmounts, saResult>>
mintRequestVars == <<nrPhase, nrArgs, nrLegacy, nrGeneric>>
ldkVars == <<ldkStore, ldkLast, ldkCall>>

vars ==
    <<settingsVars, jsonVars, walletVars, txVars, mintVars, meltVars,
    authVars, meltResponseVars, meltRequestVars, sumVars, mintRequestVars,
    ldkVars>>

\* Option::None, for every optional value of the model.
None == "None"

(***************************************************************************)
(* SETTINGS: MintMethodSettings / MeltMethodSettings                       *)
(***************************************************************************)

\* Most members a JSON settings object of the model has.
MaxKeys == 4

\* PaymentMethod values as they appear on the wire.
Methods == {"bolt11", "custom"}

\* The top-level capability flag of each settings type.
FlagKey(kind) == IF kind = "mint" THEN "description" ELSE "amountless"

\* JSON values an "options" member takes: null, {}, {flag: true}, {flag: false}.
OptionValues == {"null", "{}", "{flag:true}", "{flag:false}"}

\* The members a JSON settings object is built from (key, JSON value text).
SettingsMembers(kind) ==
    {[k |-> "method", v |-> m] : m \in Methods}
    \cup {[k |-> "unit", v |-> "sat"]}
    \cup {[k |-> "min_amount", v |-> "0"], [k |-> "max_amount", v |-> "1"]}
    \cup {[k |-> FlagKey(kind), v |-> b] : b \in {"true", "false"}}
    \cup {[k |-> "options", v |-> o] : o \in OptionValues}
    \cup {[k |-> "extra", v |-> "0"]}

\* Option<MintMethodOptions> from its JSON value: the untagged enum tries
\* Bolt11 { description } first and falls back to Custom {}.
DeserializeMintMethodOptions(v) ==
    CASE v = "null"         -> None
      [] v = "{flag:true}"  -> "Bolt11:true"
      [] v = "{flag:false}" -> "Bolt11:false"
      [] OTHER              -> "Custom"

\* Option<MeltMethodOptions> from its JSON value: the untagged enum has the
\* single variant Bolt11 { amountless }; an object without the flag matches none.
DeserializeMeltMethodOptions(v) ==
    CASE v = "null"         -> None
      [] v = "{flag:true}"  -> "Bolt11:true"
      [] v = "{flag:false}" -> "Bolt11:false"
      [] OTHER              -> "Error"

\* The flag carried by a Bolt11 options value.
OptionsFlag(o) == IF o = "Bolt11:true" THEN "true" ELSE "false"

IsBolt11Options(o) == o \in {"Bolt11:true", "Bolt11:false"}

\* The visitor's locals before the first member.
VisitorLocals ==
    [method |-> None, unit |-> None, min_amount |-> None, max_amount |-> None,
     flag |-> None, err |-> None]

\* A field of the visitor: duplicate_field when already set, else take the value.
SetOnce(acc, field, v) ==
    IF acc[field] # None
        THEN [acc EXCEPT !.err = "duplicate field " \o field]
        ELSE [acc EXCEPT ![field] = v]

\* One turn of the while-let loop of MintMethodSettingsVisitor::visit_map.
MintVisitMember(acc, e) ==
    CASE e.k = "method"      -> SetOnce(acc, "method", e.v)
      [] e.k = "unit"        -> SetOnce(acc, "unit", e.v)
      [] e.k = "min_amount"  -> SetOnce(acc, "min_amount", e.v)
      [] e.k = "max_amount"  -> SetOnce(acc, "max_amount", e.v)
      [] e.k = "description" ->
            IF acc.flag # None
                THEN [acc EXCEPT !.err = "duplicate field description"]
                ELSE [acc EXCEPT !.flag = e.v]
      [] e.k = "options"     ->
            LET options == DeserializeMintMethodOptions(e.v) IN
            IF IsBolt11Options(options) /\ acc.flag = None
                THEN [acc EXCEPT !.flag = OptionsFlag(options)]
                ELSE acc
      [] OTHER               -> acc

\* One turn of the while-let loop of MeltMethodSettingsVisitor::visit_map.
MeltVisitMember(acc, e) ==
    CASE e.k = "method"      -> SetOnce(acc, "method", e.v)
      [] e.k = "unit"        -> SetOnce(acc, "unit", e.v)
      [] e.k = "min_amount"  -> SetOnce(acc, "min_amount", e.v)
      [] e.k = "max_amount"  -> SetOnce(acc, "max_amount", e.v)
      [] e.k = "amountless"  ->
            IF acc.flag # None
                THEN [acc EXCEPT !.err = "duplicate field amountless"]
                ELSE [acc EXCEPT !.flag = e.v]
      [] e.k = "options"     ->
            LET options == DeserializeMeltMethodOptions(e.v) IN
            IF options = "Error"
                THEN [acc EXCEPT !.err = "data did not match any variant"]
                ELSE IF IsBolt11Options(options) /\ acc.flag = None
                    THEN [acc EXCEPT !.flag = OptionsFlag(options)]
                    ELSE acc
      [] OTHER               -> acc

\* The loop over the members in document order; the first error ends it.
RECURSIVE VisitMembers(_, _, _)
VisitMembers(kind, acc, members) ==
    IF members = <<>> \/ acc.err # None
        THEN acc
        ELSE VisitMembers(kind,
                          IF kind = "mint" THEN MintVisitMember(acc, Head(members))
                                           ELSE MeltVisitMember(acc, Head(members)),
                          Tail(members))

\* A settings value (ok) or a deserialization error.
SettingsValue(method, unit, min_amount, max_amount, options) ==
    [ok |-> TRUE, err |-> None, method |-> method, unit |-> unit,
     min_amount |-> min_amount, max_amount |-> max_amount, options |-> options]

SettingsError(e) ==
    [ok |-> FALSE, err |-> e, method |-> None, unit |-> None,
     min_amount |-> None, max_amount |-> None, options |-> None]

\* Variant: the options are built from the flag found, whatever the method.
MintMethodSettingsVisitMapAnyMethod(members) ==
    LET acc == VisitMembers("mint", VisitorLocals, members) IN
    IF acc.err # None THEN SettingsError(acc.err)
    ELSE IF acc.method = None THEN SettingsError("missing field method")
    ELSE IF acc.unit = None THEN SettingsError("missing field unit")
    ELSE SettingsValue(acc.method, acc.unit, acc.min_amount, acc.max_amount,
                       IF acc.flag = None THEN None ELSE "Bolt11:" \o acc.flag)

\* MintMethodSettingsVisitor::visit_map: the loop, the two required fields,
\* then the options built from the method and the flag found.
MintMethodSettingsVisitMap(members) ==
    LET acc == VisitMembers("mint", VisitorLocals, members) IN
    IF acc.err # None THEN SettingsError(acc.err)
    ELSE IF acc.method = None THEN SettingsError("missing field method")
    ELSE IF acc.unit = None THEN SettingsError("missing field unit")
    ELSE SettingsValue(acc.method, acc.unit, acc.min_amount, acc.max_amount,
                       IF acc.method = "bolt11"
                           THEN (IF acc.flag = None THEN None ELSE "Bolt11:" \o acc.flag)
                           ELSE None)

\* MeltMethodSettingsVisitor::visit_map.
MeltMethodSettingsVisitMap(members) ==
    LET acc == VisitMembers("melt", VisitorLocals, members) IN
    IF acc.err # None THEN SettingsError(acc.err)
    ELSE IF acc.method = None THEN SettingsError("missing field method")
    ELSE IF acc.unit = None THEN SettingsError("missing field unit")
    ELSE SettingsValue(acc.method, acc.unit, acc.min_amount, acc.max_amount,
                       IF acc.method = "bolt11" /\ acc.flag # None
                           THEN "Bolt11:" \o acc.flag
                           ELSE None)

\* The optional member of a serialized struct: written only when Some.
OptionalMember(key, v) == IF v = None THEN <<>> ELSE <<[k |-> key, v |-> v]>>

\* impl Serialize for MintMethodSettings.
SerializeMintMethodSettings(s) ==
    LET description_in_top_level == s.options = "Bolt11:true" IN
    <<[k |-> "method", v |-> s.method], [k |-> "unit", v |-> s.unit]>>
    \o OptionalMember("min_amount", s.min_amount)
    \o OptionalMember("max_amount", s.max_amount)
    \o (IF description_in_top_level
            THEN <<[k |-> "description", v |-> "true"]>> ELSE <<>>)

\* impl Serialize for MeltMethodSettings.
SerializeMeltMethodSettings(s) ==
    LET amountless_in_top_level == s.options = "Bolt11:true" IN
    <<[k |-> "method", v |-> s.method], [k |-> "unit", v |-> s.unit]>>
    \o OptionalMember("min_amount", s.min_amount)
    \o OptionalMember("max_amount", s.max_amount)
    \o (IF amountless_in_top_level
            THEN <<[k |-> "amountless", v |-> "true"]>> ELSE <<>>)

\* Settings values a program can construct directly.
ConstructibleSettings(kind) ==
    {SettingsValue(m, "sat", mn, mx, o) :
        m \in Methods, mn \in {None, "0"}, mx \in {None, "1"},
        o \in {None, "Bolt11:true", "Bolt11:false"}
              \cup (IF kind = "mint" THEN {"Custom"} ELSE {})}

SettingsIdle ==
    /\ sKind = "mint"
    /\ sInput = <<>>
    /\ sPhase = "building"
    /\ sResult = SettingsError(None)
    /\ sOutput = <<>>

SettingsInit ==
    /\ sKind \in {"mint", "melt"}
    /\ sInput = <<>>
    /\ sPhase = "building"
    /\ sResult = SettingsError(None)
    /\ sOutput = <<>>

\* The peer writes one more member of the JSON object.
AppendMember ==
    /\ sPhase = "building"
    /\ Len(sInput) < MaxKeys
    /\ \E e \in SettingsMembers(sKind) : sInput' = Append(sInput, e)
    /\ UNCHANGED <<sKind, sPhase, sResult, sOutput>>

\* serde_json::from_str::<MintMethodSettings / MeltMethodSettings>(input).
DeserializeSettings ==
    /\ sPhase = "building"
    /\ sResult' = IF sKind = "mint" THEN MintMethodSettingsVisitMap(sInput)
                                    ELSE MeltMethodSettingsVisitMap(sInput)
    /\ sPhase' = "parsed"
    /\ UNCHANGED <<sKind, sInput, sOutput>>

\* A settings value built in the program rather than read from JSON.
ConstructSettings ==
    /\ sPhase = "building"
    /\ sInput = <<>>
    /\ \E s \in ConstructibleSettings(sKind) : sResult' = s
    /\ sPhase' = "parsed"
    /\ UNCHANGED <<sKind, sInput, sOutput>>

\* serde_json::to_string(&settings).
SerializeSettings ==
    /\ sPhase = "parsed"
    /\ sResult.ok
    /\ sOutput' = IF sKind = "mint" THEN SerializeMintMethodSettings(sResult)
                                    ELSE SerializeMeltMethodSettings(sResult)
    /\ sPhase' = "written"
    /\ UNCHANGED <<sKind, sInput, sResult>>

SettingsNext ==
    \/ AppendMember
    \/ DeserializeSettings
    \/ ConstructSettings
    \/ SerializeSettings


(***************************************************************************)
(* QUOTE WIRE TYPES: MintQuoteResponse<String, Bolt12MintResponseFields>   *)
(***************************************************************************)

\* Largest amount of the model.
MaxAmount == 2

Amounts == 0..MaxAmount

\* The members of a Bolt12 mint quote response: the fixed fields of
\* MintQuoteResponse and the flattened fields of Bolt12MintResponseFields.
MintQuoteResponseFixedKeys == {"quote", "request", "amount", "unit", "state", "expiry"}

Bolt12MintResponseKeys == {"pubkey", "amount_paid", "amount_issued"}

\* State strings a peer may send.
MintStateStrings == {"UNPAID", "PAID", "ISSUED", "BOGUS"}

\* nut23::QuoteState from its wire string (serde rename_all = "UPPERCASE").
MintQuoteStateFromWire(str) ==
    CASE str = "UNPAID" -> "Unpaid"
      [] str = "PAID"   -> "Paid"
      [] str = "ISSUED" -> "Issued"
      [] OTHER          -> "Error"

\* JSON objects of the model: which members are present, and the values of
\* the members that decide anything.
JsonInputs ==
    [present : SUBSET (MintQuoteResponseFixedKeys \cup Bolt12MintResponseKeys),
     state : MintStateStrings, amount_paid : Amounts, amount_issued : Amounts]

JsonError(e) ==
    [ok |-> FALSE, err |-> e, state |-> None, amount_paid |-> 0, amount_issued |-> 0]

NotValidated == [fields |-> None, response |-> None]

\* Variant: validate also refuses a quote that is issued in full.
Bolt12MintResponseFieldsValidateStrict(fields) ==
    IF fields.amount_issued >= fields.amount_paid
        THEN "Issued amount cannot exceed paid amount"
        ELSE "Ok"

\* Bolt12MintResponseFields::validate.
Bolt12MintResponseFieldsValidate(fields) ==
    IF fields.amount_issued > fields.amount_paid
        THEN "Issued amount cannot exceed paid amount"
        ELSE "Ok"

\* MintQuoteResponse::validate delegates to the method fields.
MintQuoteResponseValidate(response) == Bolt12MintResponseFieldsValidate(response)

\* The derived Deserialize of MintQuoteResponse<String, Bolt12MintResponseFields>:
\* every fixed field and every flattened field is required, the state must be a
\* known variant; nothing else is checked.
DeserializeMintQuoteResponse(json) ==
    IF \E key \in MintQuoteResponseFixedKeys : key \notin json.present
        THEN JsonError("missing field")
    ELSE IF MintQuoteStateFromWire(json.state) = "Error"
        THEN JsonError("unknown variant")
    ELSE IF \E key \in Bolt12MintResponseKeys : key \notin json.present
        THEN JsonError("missing field")
    ELSE [ok |-> TRUE, err |-> None, state |-> MintQuoteStateFromWire(json.state),
          amount_paid |-> json.amount_paid, amount_issued |-> json.amount_issued]

JsonIdle ==
    /\ jInput = [present |-> {}, state |-> "UNPAID", amount_paid |-> 0, amount_issued |-> 0]
    /\ jPhase = "input"
    /\ jResult = JsonError(None)
    /\ jValid = NotValidated

JsonInit ==
    /\ jInput \in JsonInputs
    /\ jPhase = "input"
    /\ jResult = JsonError(None)
    /\ jValid = NotValidated

\* serde_json::from_str::<MintQuoteResponse<String, Bolt12MintResponseFields>>.
ParseMintQuoteResponse ==
    /\ jPhase = "input"
    /\ jResult' = DeserializeMintQuoteResponse(jInput)
    /\ jPhase' = "parsed"
    /\ UNCHANGED <<jInput, jValid>>

\* The caller validates an accepted response: MintQuoteResponseFields::validate
\* on its method fields and MintQuoteResponse::validate on the whole.
ValidateMintQuoteResponse ==
    /\ jPhase = "parsed"
    /\ jResult.ok
    /\ jValid' = [fields |-> Bolt12MintResponseFieldsValidate(jResult),
                  response |-> MintQuoteResponseValidate(jResult)]
    /\ jPhase' = "validated"
    /\ UNCHANGED <<jInput, jResult>>

JsonNext ==
    \/ ParseMintQuoteResponse
    \/ ValidateMintQuoteResponse


(***************************************************************************)
(* WALLET: melt quotes of a custom rail over the local store               *)
(***************************************************************************)

\* Concurrent wallet calls.
Tasks == {"t1", "t2"}

QuoteIds == {"q1", "q2"}

\* nut05::QuoteState.
MeltStates == {"Unpaid", "Paid", "Pending", "Unknown", "Failed"}

\* Payment requests and rail names a caller passes.
Requests == {"req"}

CustomMethods == {"paypal"}

\* The wallet's unit (self.unit).
WalletUnit == "sat"

\* Latest expiry a mint answers with.
MaxExpiry == 1

NoQuote ==
    [id |-> None, amount |-> 0, request |-> None, unit |-> None, fee_reserve |-> 0,
     state |-> None, expiry |-> 0, payment_preimage |-> None, payment_method |-> None]

NoResponse ==
    [quote |-> None, amount |-> 0, unit |-> None, state |-> None, expiry |-> 0]

\* SimpleMeltQuoteResponse<String> values a mint answers a quote request with.
QuoteResponses ==
    [quote : QuoteIds, amount : {MaxAmount}, unit : {WalletUnit},
     state : MeltStates, expiry : {MaxExpiry}]

\* SimpleMeltQuoteResponse<String> values a mint answers a status request with:
\* the mint is free in the state and the amount it reports.
StatusResponses(quote_id) ==
    [quote : {quote_id}, amount : 1..MaxAmount, unit : {WalletUnit},
     state : MeltStates, expiry : {MaxExpiry}]

\* A SimpleMeltQuoteRequest: request, unit and the members its method fields
\* add (NoAdditionalFields adds none).
NoBody == [request |-> None, unit |-> None, method_fields |-> {}]

\* A call on the client: the method as path argument, and the body.
NoPosted == [path |-> None, body |-> NoBody]

\* A cdk_common MeltQuoteRequest::Custom(MeltQuoteCustomRequest), or none.
NoConverted ==
    [kind |-> None, method |-> None, request |-> None, unit |-> None, data |-> {}]

IdleTask ==
    [pc |-> "idle", method |-> None, request |-> None, quote_id |-> None,
     response |-> NoResponse, quote |-> NoQuote, result |-> None,
     retQuote |-> NoQuote, retResponse |-> NoResponse,
     posted |-> NoPosted, converted |-> NoConverted]

\* `?` on a failed await: the call returns the error, its locals are dropped.
ReturnErr(t) ==
    wtask' = [wtask EXCEPT ![t] = [IdleTask EXCEPT !.pc = "done", !.result = "Err"]]

\* localstore.add_melt_quote(quote) when it succeeds: the row with the quote's
\* id is inserted or replaced.
AddMeltQuote(store, quote) == [store EXCEPT ![quote.id] = quote]

\* localstore.remove_melt_quote(quote_id) when it succeeds.
RemoveMeltQuote(store, quote_id) == [store EXCEPT ![quote_id] = NoQuote]

\* localstore.get_melt_quote(quote_id): Some(quote) or None.
GetMeltQuote(store, quote_id) == store[quote_id]

\* Variant: the quote takes the response's amount as its fee reserve.
CustomMeltQuoteWithFeeReserve(method, request, quote_res) ==
    [id |-> quote_res.quote, amount |-> quote_res.amount, request |-> request,
     unit |-> WalletUnit, fee_reserve |-> quote_res.amount, state |-> quote_res.state,
     expiry |-> quote_res.expiry, payment_preimage |-> None,
     payment_method |-> "Custom:" \o method]

\* melt_quote_custom: the MeltQuote built from the mint's response.
CustomMeltQuote(method, request, quote_res) ==
    [id |-> quote_res.quote, amount |-> quote_res.amount, request |-> request,
     unit |-> WalletUnit, fee_reserve |-> 0, state |-> quote_res.state,
     expiry |-> quote_res.expiry, payment_preimage |-> None,
     payment_method |-> "Custom:" \o method]

\* Variant: the write-back takes the amount from the mint's answer as well.
QuoteWithStateAndAmount(quote, response) ==
    [quote EXCEPT !.state = response.state, !.amount = response.amount]

\* melt_custom_quote_status: the quote written back, with the reported state.
QuoteWithState(quote, response) == [quote EXCEPT !.state = response.state]

\* Variant: the rail name is sent in the body as well.
CustomQuoteRequestWithMethod(method, request) ==
    [request |-> request, unit |-> WalletUnit, method_fields |-> {<<"method", method>>}]

\* melt_quote_custom: the body it builds, SimpleMeltQuoteRequest { request,
\* unit: self.unit, method_fields: NoAdditionalFields }; the method is in scope
\* and not used.
CustomQuoteRequest(method, request) ==
    [request |-> request, unit |-> WalletUnit, method_fields |-> {}]

\* impl From<SimpleMeltQuoteRequest> for MeltQuoteRequest.
MeltQuoteRequestFrom(request) ==
    [kind |-> "Custom", method |-> "", request |-> request.request,
     unit |-> request.unit, data |-> {}]

\* ---- melt_quote_custom(method, request, _options)

\* The call starts: self.refresh_keysets().await is pending.
MeltQuoteCustomCall(t) ==
    /\ wtask[t].pc = "idle"
    /\ \E m \in CustomMethods, r \in Requests :
          wtask' = [wtask EXCEPT ![t] = [IdleTask EXCEPT
                        !.pc = "mq_refresh", !.method = m, !.request = r]]
    /\ UNCHANGED localstore

\* refresh_keysets returns: Ok goes on to build the body and post it with the
\* method as path argument, Err returns.
MeltQuoteCustomRefreshed(t) ==
    /\ wtask[t].pc = "mq_refresh"
    /\ \/ wtask' = [wtask EXCEPT
                        ![t].pc = "mq_post",
                        ![t].posted = [path |-> wtask[t].method,
                                       body |-> CustomQuoteRequest(wtask[t].method,
                                                                   wtask[t].request)]]
       \/ ReturnErr(t)
    /\ UNCHANGED localstore

\* The body that was posted is turned into a MeltQuoteRequest by From.
SimpleMeltQuoteRequestConverted(t) ==
    /\ wtask[t].pc = "mq_post"
    /\ wtask[t].converted = NoConverted
    /\ wtask' = [wtask EXCEPT ![t].converted = MeltQuoteRequestFrom(wtask[t].posted.body)]
    /\ UNCHANGED localstore

\* client.post_melt_custom_quote returns: Ok(quote_res) goes on to store, Err returns.
MeltQuoteCustomPosted(t) ==
    /\ wtask[t].pc = "mq_post"
    /\ \/ \E quote_res \in QuoteResponses :
             wtask' = [wtask EXCEPT ![t].pc = "mq_add", ![t].response = quote_res]
       \/ ReturnErr(t)
    /\ UNCHANGED localstore

\* localstore.add_melt_quote(quote.clone()) returns: Ok(quote) or the error.
MeltQuoteCustomStored(t) ==
    /\ wtask[t].pc = "mq_add"
    /\ LET quote == CustomMeltQuote(wtask[t].method, wtask[t].request, wtask[t].response) IN
       \/ /\ localstore' = AddMeltQuote(localstore, quote)
          /\ wtask' = [wtask EXCEPT ![t] = [IdleTask EXCEPT
                          !.pc = "done", !.result = "Ok", !.retQuote = quote]]
       \/ /\ ReturnErr(t)
          /\ UNCHANGED localstore

\* ---- melt_custom_quote_status(method, quote_id)

\* The call starts: client.get_melt_custom_quote_status(..).await is pending.
MeltCustomQuoteStatusCall(t) ==
    /\ wtask[t].pc = "idle"
    /\ \E m \in CustomMethods, q \in QuoteIds :
          wtask' = [wtask EXCEPT ![t] = [IdleTask EXCEPT
                        !.pc = "st_get", !.method = m, !.quote_id = q]]
    /\ UNCHANGED localstore

\* The mint's answer arrives: Ok(response) goes on to read the store, Err returns.
MeltCustomQuoteStatusAnswered(t) ==
    /\ wtask[t].pc = "st_get"
    /\ \/ \E response \in StatusResponses(wtask[t].quote_id) :
             wtask' = [wtask EXCEPT ![t].pc = "st_read", ![t].response = response]
       \/ ReturnErr(t)
    /\ UNCHANGED localstore

\* localstore.get_melt_quote(quote_id) returns: Some(quote) goes on to write it
\* back with the reported state, None returns Ok(response), Err returns.
MeltCustomQuoteStatusRead(t) ==
    /\ wtask[t].pc = "st_read"
    /\ LET found == GetMeltQuote(localstore, wtask[t].quote_id) IN
       \/ /\ found # NoQuote
          /\ wtask' = [wtask EXCEPT ![t].pc = "st_write", ![t].quote = found]
       \/ /\ found = NoQuote
          /\ wtask' = [wtask EXCEPT ![t] = [IdleTask EXCEPT
                          !.pc = "done", !.result = "Ok",
                          !.retResponse = wtask[t].response]]
       \/ ReturnErr(t)
    /\ UNCHANGED localstore

\* localstore.add_melt_quote(quote) returns: Ok(response) or the error.
MeltCustomQuoteStatusWritten(t) ==
    /\ wtask[t].pc = "st_write"
    /\ \/ /\ localstore' = AddMeltQuote(localstore,
                                       QuoteWithState(wtask[t].quote, wtask[t].response))
          /\ wtask' = [wtask EXCEPT ![t] = [IdleTask EXCEPT
                          !.pc = "done", !.result = "Ok",
                          !.retResponse = wtask[t].response]]
       \/ /\ ReturnErr(t)
          /\ UNCHANGED localstore

\* ---- remove_melt_quote(quote_id) of the database adapter: one transaction

RemoveMeltQuoteCall(t) ==
    /\ wtask[t].pc = "idle"
    /\ \E q \in QuoteIds :
          wtask' = [wtask EXCEPT ![t] = [IdleTask EXCEPT !.pc = "rm", !.quote_id = q]]
    /\ UNCHANGED localstore

\* begin, remove and commit have run: the row is gone, or an error is returned.
RemoveMeltQuoteDone(t) ==
    /\ wtask[t].pc = "rm"
    /\ \/ /\ localstore' = RemoveMeltQuote(localstore, wtask[t].quote_id)
          /\ wtask' = [wtask EXCEPT ![t] = [IdleTask EXCEPT !.pc = "done", !.result = "Ok"]]
       \/ /\ ReturnErr(t)
          /\ UNCHANGED localstore

\* The caller takes the result of a finished call.
WalletReturn(t) ==
    /\ wtask[t].pc = "done"
    /\ wtask' = [wtask EXCEPT ![t] = IdleTask]
    /\ UNCHANGED localstore

WalletIdle ==
    /\ localstore = [q \in QuoteIds |-> NoQuote]
    /\ wtask = [t \in Tasks |-> IdleTask]

WalletInit == WalletIdle

WalletNext ==
    \E t \in Tasks :
        \/ MeltQuoteCustomCall(t)
        \/ MeltQuoteCustomRefreshed(t)
        \/ SimpleMeltQuoteRequestConverted(t)
        \/ MeltQuoteCustomPosted(t)
        \/ MeltQuoteCustomStored(t)
        \/ MeltCustomQuoteStatusCall(t)
        \/ MeltCustomQuoteStatusAnswered(t)
        \/ MeltCustomQuoteStatusRead(t)
        \/ MeltCustomQuoteStatusWritten(t)
        \/ RemoveMeltQuoteCall(t)
        \/ RemoveMeltQuoteDone(t)
        \/ WalletReturn(t)


(***************************************************************************)
(* TRANSACTION WRAPPERS of the database adapters                           *)
(***************************************************************************)

KvKeys == {"k1"}

KvValues == {"a", "b"}

Ys == {"y1"}

ProofStates == {"Unspent", "Pending", "Spent"}

\* Largest value of the derivation counter in the model.
MaxCounter == 3

\* count is a u32: zero is a value a caller can pass.
Counts == {0, 1, 2}

\* A row a transaction leaves alone.
Keep == "Keep"

\* The counter row when a transaction leaves it alone.
KeepCounter == -1

\* The committed tables.
Tables == <<kvStore, keysetCounter, proofTable>>

NoCall ==
    [op |-> None, key |-> None, value |-> None, added |-> {}, removed |-> {},
     ys |-> {}, state |-> None, count |-> 0]

\* The wrapper calls of the model, with their arguments.
Calls ==
    {[NoCall EXCEPT !.op = "kv_write", !.key = k, !.value = v] :
        k \in KvKeys, v \in KvValues}
    \cup {[NoCall EXCEPT !.op = "kv_remove", !.key = k] : k \in KvKeys}
    \cup {[NoCall EXCEPT !.op = "update_proofs", !.added = a, !.removed = r] :
            a \in SUBSET Ys, r \in SUBSET Ys}
    \cup {[NoCall EXCEPT !.op = "update_proofs_state", !.ys = ys, !.state = st] :
            ys \in (SUBSET Ys) \ {{}}, st \in ProofStates}
    \cup {[NoCall EXCEPT !.op = "increment_keyset_counter", !.count = c] : c \in Counts}

\* The write set of a transaction that has written nothing.
NoWrites ==
    [kv |-> [k \in KvKeys |-> Keep], counter |-> KeepCounter,
     proofs |-> [y \in Ys |-> Keep]]

IdleTx ==
    [pc |-> "idle", call |-> NoCall, writes |-> NoWrites, counter |-> 0,
     result |-> None, failed |-> None]

\* The rows a write set touches.
RowsOf(writes) ==
    {"kv:" \o k : k \in {k \in KvKeys : writes.kv[k] # Keep}}
    \cup (IF writes.counter # KeepCounter THEN {"counter"} ELSE {})
    \cup {"proof:" \o y : y \in {y \in Ys : writes.proofs[y] # Keep}}

\* Row locks held by the open transactions of the other tasks.
LockedByOthers(t) ==
    UNION {RowsOf(tx[u].writes) : u \in {u \in Tasks : u # t /\ tx[u].pc = "commit"}}

\* tx.kv_write(primary, secondary, key, value): the row is set.
KvWriteWrites(call) ==
    [NoWrites EXCEPT !.kv[call.key] = call.value]

\* tx.kv_remove(primary, secondary, key): the row is deleted.
KvRemoveWrites(call) ==
    [NoWrites EXCEPT !.kv[call.key] = None]

\* tx.update_proofs(added, removed_ys): added proofs are stored unspent,
\* removed ones deleted.
UpdateProofsWrites(call) ==
    [NoWrites EXCEPT !.proofs = [y \in Ys |->
        IF y \in call.removed THEN None
        ELSE IF y \in call.added THEN "Unspent"
        ELSE Keep]]

\* Variant: the state is changed by deleting the row and inserting it anew, and
\* a row that already has the state is deleted only.
UpdateProofsStateByReinsert(call) ==
    [NoWrites EXCEPT !.proofs = [y \in Ys |->
        IF y \in call.ys /\ proofTable[y] # None
            THEN (IF proofTable[y] = call.state THEN None ELSE call.state)
            ELSE Keep]]

\* tx.update_proofs_state(ys, state): the proofs stored under ys get the state.
UpdateProofsStateWrites(call) ==
    [NoWrites EXCEPT !.proofs = [y \in Ys |->
        IF y \in call.ys /\ proofTable[y] # None THEN call.state ELSE Keep]]

\* tx.increment_keyset_counter(id, count): the counter read in the transaction
\* plus count.
IncrementKeysetCounterWrites(call) ==
    [NoWrites EXCEPT !.counter = keysetCounter + call.count]

\* The writes the wrapper's one operation makes inside its transaction.
WritesOf(call) ==
    CASE call.op = "kv_write"            -> KvWriteWrites(call)
      [] call.op = "kv_remove"           -> KvRemoveWrites(call)
      [] call.op = "update_proofs"       -> UpdateProofsWrites(call)
      [] call.op = "update_proofs_state" -> UpdateProofsStateWrites(call)
      [] OTHER                           -> IncrementKeysetCounterWrites(call)

\* The committed tables with a write set applied.
AppliedKv(writes) ==
    [k \in KvKeys |-> IF writes.kv[k] = Keep THEN kvStore[k] ELSE writes.kv[k]]

AppliedCounter(writes) ==
    IF writes.counter = KeepCounter THEN keysetCounter ELSE writes.counter

AppliedProofs(writes) ==
    [y \in Ys |-> IF writes.proofs[y] = Keep THEN proofTable[y] ELSE writes.proofs[y]]

\* commit: the write set becomes visible at once.
CommitWrites(writes) ==
    /\ kvStore' = AppliedKv(writes)
    /\ keysetCounter' = AppliedCounter(writes)
    /\ proofTable' = AppliedProofs(writes)

\* rollback, also when the transaction is dropped: nothing becomes visible.
Rollback == UNCHANGED Tables

\* `?` on a failed step: the transaction is dropped and the error returned.
TxReturnErr(t, step) ==
    tx' = [tx EXCEPT ![t] = [IdleTx EXCEPT
              !.pc = "done", !.call = tx[t].call, !.result = "Err", !.failed = step]]

\* A wrapper is called: begin_db_transaction().await is pending.
WrapperCall(t) ==
    /\ tx[t].pc = "idle"
    /\ \E call \in Calls : tx' = [tx EXCEPT ![t] = [IdleTx EXCEPT !.pc = "begin", !.call = call]]
    /\ Rollback

\* begin_db_transaction returns: Ok(tx) goes on to the operation, Err returns.
WrapperBegun(t) ==
    /\ tx[t].pc = "begin"
    /\ \/ tx' = [tx EXCEPT ![t].pc = "op"]
       \/ TxReturnErr(t, "begin")
    /\ Rollback

\* Variant: the operation runs on the store itself rather than on the open
\* transaction, so its writes are visible before commit.
OperationOutsideTransaction(t) ==
    LET writes == WritesOf(tx[t].call) IN
    /\ writes.counter <= MaxCounter
    /\ RowsOf(writes) \cap LockedByOthers(t) = {}
    /\ tx' = [tx EXCEPT ![t].pc = "commit", ![t].writes = NoWrites,
                        ![t].counter = IF writes.counter = KeepCounter THEN 0
                                                                       ELSE writes.counter]
    /\ CommitWrites(writes)

\* Variant: the operation does not wait for rows another open transaction has
\* written.
OperationOkWithoutLocks(t) ==
    LET writes == WritesOf(tx[t].call) IN
    /\ writes.counter <= MaxCounter
    /\ tx' = [tx EXCEPT ![t].pc = "commit", ![t].writes = writes,
                        ![t].counter = IF writes.counter = KeepCounter THEN 0
                                                                       ELSE writes.counter]
    /\ Rollback

\* The operation on the open transaction succeeds: its writes are buffered in
\* the transaction. It waits while another open transaction holds a row it writes.
OperationOk(t) ==
    LET writes == WritesOf(tx[t].call) IN
    /\ writes.counter <= MaxCounter
    /\ RowsOf(writes) \cap LockedByOthers(t) = {}
    /\ tx' = [tx EXCEPT ![t].pc = "commit", ![t].writes = writes,
                        ![t].counter = IF writes.counter = KeepCounter THEN 0
                                                                       ELSE writes.counter]
    /\ Rollback

\* The operation returns: Ok goes on to commit, Err drops the transaction.
WrapperOperated(t) ==
    /\ tx[t].pc = "op"
    /\ \/ OperationOk(t)
       \/ TxReturnErr(t, "op") /\ Rollback

\* tx.commit() returns: Ok makes the writes visible and the wrapper returns Ok
\* (the counter for increment_keyset_counter); Err returns the error.
WrapperCommitted(t) ==
    /\ tx[t].pc = "commit"
    /\ \/ /\ CommitWrites(tx[t].writes)
          /\ tx' = [tx EXCEPT ![t] = [IdleTx EXCEPT
                        !.pc = "done", !.call = tx[t].call, !.result = "Ok",
                        !.counter = tx[t].counter]]
       \/ TxReturnErr(t, "commit") /\ Rollback

\* Variant: the operation of a future dropped while it is pending stays in
\* the store.
WrapperAbandonedKeepsWrites(t) ==
    /\ tx[t].pc \in {"begin", "op", "commit", "done"}
    /\ tx' = [tx EXCEPT ![t] = [IdleTx EXCEPT !.pc = "abandoned", !.call = tx[t].call,
                                              !.failed = tx[t].pc]]
    /\ \/ /\ tx[t].pc # "op"
          /\ Rollback
       \/ /\ tx[t].pc = "op"
          /\ CommitWrites(WritesOf(tx[t].call))
       \/ /\ tx[t].pc = "commit"
          /\ CommitWrites(tx[t].writes)

\* The caller drops the call's future at a suspension point, or drops its
\* result: an open transaction is dropped with it. A future dropped while
\* commit is pending leaves the commit either done or not done.
WrapperAbandoned(t) ==
    /\ tx[t].pc \in {"begin", "op", "commit", "done"}
    /\ tx' = [tx EXCEPT ![t] = [IdleTx EXCEPT !.pc = "abandoned", !.call = tx[t].call,
                                              !.failed = tx[t].pc]]
    /\ \/ Rollback
       \/ /\ tx[t].pc = "commit"
          /\ CommitWrites(tx[t].writes)

\* The caller is ready for its next call.
TxReturn(t) ==
    /\ tx[t].pc \in {"done", "abandoned"}
    /\ tx' = [tx EXCEPT ![t] = IdleTx]
    /\ Rollback

TxIdle ==
    /\ kvStore = [k \in KvKeys |-> None]
    /\ keysetCounter = 0
    /\ proofTable = [y \in Ys |-> None]
    /\ tx = [t \in Tasks |-> IdleTx]

TxInit == TxIdle

TxNext ==
    \E t \in Tasks :
        \/ WrapperCall(t)
        \/ WrapperBegun(t)
        \/ WrapperOperated(t)
        \/ WrapperCommitted(t)
        \/ WrapperAbandoned(t)
        \/ TxReturn(t)


(***************************************************************************)
(* MINT-SIDE MINT QUOTE: payments and issuance against one quote           *)
(***************************************************************************)

\* Concurrent issuance requests, each for its own set of outputs.
Issuers == {"i1", "i2"}

\* Most that is ever paid toward the quote in the model.
MaxPaid == 3

\* The quote's expiry and the last instant of the model's clock.
MintExpiry == 2

MaxTime == 2

IdleIssuer == [pc |-> "idle", amount |-> 0, seen_issued |-> 0, result |-> None]

\* The backend observes a payment, possibly a partial one: amount_paid grows.
RecordPayment ==
    /\ mintQuote.state \in {"Unpaid", "Paid"}
    /\ \E a \in 1..MaxAmount :
          /\ mintQuote.amount_paid + a <= MaxPaid
          /\ mintQuote' = [mintQuote EXCEPT !.amount_paid = @ + a, !.state = "Paid"]
    /\ UNCHANGED <<signedOutputs, now, issuer>>

\* An issuance request for the outputs r, summing to x, arrives (outputs that
\* were signed before come with the amount they had then); the handler looks
\* at the quote and computes the signatures before it opens its transaction.
IssueRequested(r) ==
    /\ issuer[r].pc = "idle"
    /\ \E x \in 1..MaxAmount :
          /\ signedOutputs[r] \in {0, x}
          /\ issuer' = [issuer EXCEPT ![r] = [IdleIssuer EXCEPT
                            !.pc = "signing", !.amount = x,
                            !.seen_issued = mintQuote.amount_issued]]
    /\ UNCHANGED <<mintQuote, signedOutputs, now>>

\* The row after issuing x against it.
IssuedRow(row, x) ==
    [row EXCEPT !.amount_issued = @ + x,
                !.state = IF row.amount_issued + x >= row.amount THEN "Issued" ELSE @]

\* Variant: the check is made on the amount the handler saw when the request
\* arrived, not on the row as it is at the write.
IssueCommittedFromSnapshot(r) ==
    /\ issuer[r].pc = "signing"
    /\ IF signedOutputs[r] # 0
       THEN /\ issuer' = [issuer EXCEPT ![r].pc = "done", ![r].result = "Ok"]
            /\ UNCHANGED <<mintQuote, signedOutputs>>
       ELSE IF /\ now < mintQuote.expiry
               /\ issuer[r].seen_issued + issuer[r].amount <= mintQuote.amount_paid
       THEN /\ mintQuote' = IssuedRow(mintQuote, issuer[r].amount)
            /\ signedOutputs' = [signedOutputs EXCEPT ![r] = issuer[r].amount]
            /\ issuer' = [issuer EXCEPT ![r].pc = "done", ![r].result = "Ok"]
       ELSE /\ issuer' = [issuer EXCEPT ![r].pc = "done", ![r].result = "Err"]
            /\ UNCHANGED <<mintQuote, signedOutputs>>
    /\ UNCHANGED now

\* "Increase amount_issued and emit signatures" as one atomic read-modify-write
\* of the persisted row: expiry and the paid amount are checked on the row as
\* it is now. Outputs that were signed before are answered without a second
\* increment.
IssueCommitted(r) ==
    /\ issuer[r].pc = "signing"
    /\ IF signedOutputs[r] # 0
       THEN /\ issuer' = [issuer EXCEPT ![r].pc = "done", ![r].result = "Ok"]
            /\ UNCHANGED <<mintQuote, signedOutputs>>
       ELSE IF /\ now < mintQuote.expiry
               /\ mintQuote.amount_issued + issuer[r].amount <= mintQuote.amount_paid
       THEN /\ mintQuote' = IssuedRow(mintQuote, issuer[r].amount)
            /\ signedOutputs' = [signedOutputs EXCEPT ![r] = issuer[r].amount]
            /\ issuer' = [issuer EXCEPT ![r].pc = "done", ![r].result = "Ok"]
       ELSE /\ issuer' = [issuer EXCEPT ![r].pc = "done", ![r].result = "Err"]
            /\ UNCHANGED <<mintQuote, signedOutputs>>
    /\ UNCHANGED now

\* The request's answer is sent.
IssueReturn(r) ==
    /\ issuer[r].pc = "done"
    /\ issuer' = [issuer EXCEPT ![r] = IdleIssuer]
    /\ UNCHANGED <<mintQuote, signedOutputs, now>>

\* Time passes.
Tick ==
    /\ now < MaxTime
    /\ now' = now + 1
    /\ UNCHANGED <<mintQuote, signedOutputs, issuer>>

MintIdle ==
    /\ mintQuote = [amount |-> MaxPaid, amount_paid |-> 0, amount_issued |-> 0,
                    state |-> "Unpaid", expiry |-> MintExpiry]
    /\ signedOutputs = [r \in Issuers |-> 0]
    /\ now = 0
    /\ issuer = [r \in Issuers |-> IdleIssuer]

MintInit ==
    /\ \E a \in 1..MaxPaid :
          mintQuote = [amount |-> a, amount_paid |-> 0, amount_issued |-> 0,
                       state |-> "Unpaid", expiry |-> MintExpiry]
    /\ signedOutputs = [r \in Issuers |-> 0]
    /\ now = 0
    /\ issuer = [r \in Issuers |-> IdleIssuer]

MintNext ==
    \/ RecordPayment
    \/ Tick
    \/ \E r \in Issuers :
          \/ IssueRequested(r)
          \/ IssueCommitted(r)
          \/ IssueReturn(r)

(***************************************************************************)
(* MINT-SIDE MELT QUOTE: reserve the inputs, pay out, settle               *)
(***************************************************************************)

\* Largest fee reserve of a melt quote in the model.
MaxFeeReserve == 1

\* The melt starts: the quote goes Pending and its inputs are reserved, in
\* one transaction.
MeltStart ==
    /\ meltPc = "idle"
    /\ meltQuote.state = "Unpaid"
    /\ inputProofs = "Unspent"
    /\ meltQuote' = [meltQuote EXCEPT !.state = "Pending"]
    /\ inputProofs' = "Pending"
    /\ meltPc' = "reserved"
    /\ UNCHANGED <<backend, timedOut>>

\* The outgoing payment is handed to the backend.
MeltPay ==
    /\ meltPc = "reserved"
    /\ backend' = "inflight"
    /\ meltPc' = "paying"
    /\ UNCHANGED <<meltQuote, inputProofs, timedOut>>

\* The payment settles at the backend, one way or the other.
BackendSettles ==
    /\ backend = "inflight"
    /\ backend' \in {"paid", "failed"}
    /\ UNCHANGED <<meltQuote, inputProofs, meltPc, timedOut>>

\* The quote goes Paid with the preimage and its inputs are marked spent, in
\* one transaction.
SettlePaid ==
    /\ meltQuote' = [meltQuote EXCEPT !.state = "Paid", !.payment_preimage = "preimage"]
    /\ inputProofs' = "Spent"

\* The quote goes Failed and its inputs are released, in one transaction.
SettleFailed ==
    /\ meltQuote' = [meltQuote EXCEPT !.state = "Failed"]
    /\ inputProofs' = "Unspent"

\* Variant: the quote is marked Paid on its own; the inputs are left for later.
MeltPaidReplyQuoteOnly ==
    /\ meltPc = "paying"
    /\ backend = "paid"
    /\ meltQuote' = [meltQuote EXCEPT !.state = "Paid", !.payment_preimage = "preimage"]
    /\ meltPc' = "done"
    /\ UNCHANGED <<inputProofs, backend, timedOut>>

\* The backend answers the payment call with a preimage.
MeltPaidReply ==
    /\ meltPc = "paying"
    /\ backend = "paid"
    /\ SettlePaid
    /\ meltPc' = "done"
    /\ UNCHANGED <<backend, timedOut>>

\* The backend answers that the payment is impossible.
MeltFailedReply ==
    /\ meltPc = "paying"
    /\ backend = "failed"
    /\ SettleFailed
    /\ meltPc' = "done"
    /\ UNCHANGED <<backend, timedOut>>

\* Variant: a call that times out is taken for a failed payment.
MeltTimeoutAsFailure ==
    /\ meltPc = "paying"
    /\ SettleFailed
    /\ meltPc' = "done"
    /\ timedOut' = TRUE
    /\ UNCHANGED backend

\* The backend call times out: no confirmation either way. The quote is
\* quarantined and its inputs stay reserved.
MeltTimeout ==
    /\ meltPc = "paying"
    /\ meltQuote' = [meltQuote EXCEPT !.state = "Unknown"]
    /\ meltPc' = "done"
    /\ timedOut' = TRUE
    /\ UNCHANGED <<inputProofs, backend>>

\* The mint process dies between reserving the inputs and recording the outcome.
MeltCrash ==
    /\ meltPc \in {"reserved", "paying"}
    /\ meltPc' = "crashed"
    /\ UNCHANGED <<meltQuote, inputProofs, backend, timedOut>>

\* After a restart the Pending quote is resolved from the backend's record of
\* the payment; while the payment is in flight the quote stays Pending.
MeltRecover ==
    /\ meltPc = "crashed"
    /\ backend # "inflight"
    /\ IF backend = "paid" THEN SettlePaid ELSE SettleFailed
    /\ meltPc' = "recovered"
    /\ UNCHANGED <<backend, timedOut>>

\* Reconciliation of a quarantined quote: the backend is asked for the
\* payment's outcome; without an answer the quote stays Unknown.
MeltReconcile ==
    /\ meltQuote.state = "Unknown"
    /\ \/ /\ backend = "paid"
          /\ SettlePaid
          /\ timedOut' = FALSE
       \/ /\ backend = "failed"
          /\ SettleFailed
          /\ timedOut' = FALSE
       \/ UNCHANGED <<meltQuote, inputProofs, timedOut>>
    /\ meltPc' = "reconciling"
    /\ UNCHANGED backend

MeltIdle ==
    /\ meltQuote = [amount |-> 1, fee_reserve |-> 0, inputs_amount |-> 1,
                    state |-> "Unpaid", payment_preimage |-> None]
    /\ inputProofs = "Unspent"
    /\ backend = "none"
    /\ meltPc = "idle"
    /\ timedOut = FALSE

MeltInit ==
    /\ \E a \in 1..MaxAmount, f \in 0..MaxFeeReserve, extra \in 0..MaxAmount :
          meltQuote = [amount |-> a, fee_reserve |-> f, inputs_amount |-> a + f + extra,
                       state |-> "Unpaid", payment_preimage |-> None]
    /\ inputProofs = "Unspent"
    /\ backend = "none"
    /\ meltPc = "idle"
    /\ timedOut = FALSE

MeltNext ==
    \/ MeltStart
    \/ MeltPay
    \/ BackendSettles
    \/ MeltPaidReply
    \/ MeltFailedReply
    \/ MeltTimeout
    \/ MeltCrash
    \/ MeltRecover
    \/ MeltReconcile

(***************************************************************************)
(* AUTH WALLET: Wallet::auth_wallet behind a reader/writer lock            *)
(***************************************************************************)

\* Concurrent calls on the wallet.
AuthTasks == {"a1", "a2", "a3"}

AuthWallets == {"w1"}

\* The operations that take the read guard.
ReaderOps ==
    {"mint_blind_auth", "get_unspent_auth_proofs", "set_cat", "set_refresh_token",
     "refresh_access_token", "get_auth_wallet"}

\* Positions inside a read section and inside the write section.
ReadSectionPcs == {"r_in", "r_inner"}

WriteSectionPcs == {"w_in", "w_client"}

IdleAuthTask == [pc |-> "idle", op |-> None, arg |-> None, guard |-> None, result |-> None]

\* Variant: every reader fails when no auth wallet is set.
ResultWithoutAuthWalletAlwaysErr(op) == "Err:AuthSettingsUndefined"

\* What each reader returns when the guard holds no auth wallet.
ResultWithoutAuthWallet(op) ==
    IF op \in {"mint_blind_auth", "get_unspent_auth_proofs"}
        THEN "Err:AuthSettingsUndefined"
        ELSE "Ok"

\* What the call on the AuthWallet can answer.
InnerResults(op) == IF op = "set_refresh_token" THEN {"Ok"} ELSE {"Ok", "Err"}

\* The tokens the auth wallet holds after a call on it: set_cat and
\* refresh_access_token store an access token when they succeed,
\* set_refresh_token stores a refresh token.
StoredTokens(op, result, tokens) ==
    IF op \in {"set_cat", "refresh_access_token"} /\ result = "Ok"
        THEN tokens \cup {"cat"}
    ELSE IF op = "set_refresh_token"
        THEN tokens \cup {"refresh"}
    ELSE tokens

\* A call starts: it is about to ask for the lock.
AuthCall(t) ==
    /\ atask[t].pc = "idle"
    /\ \/ \E op \in ReaderOps :
             atask' = [atask EXCEPT ![t] = [IdleAuthTask EXCEPT !.pc = "r_lock", !.op = op]]
       \/ \E w \in AuthWallets \cup {None} :
             atask' = [atask EXCEPT ![t] = [IdleAuthTask EXCEPT
                           !.pc = "w_lock", !.op = "set_auth_client", !.arg = w]]
    /\ UNCHANGED <<authTokens, authWallet, clientAuthWallet, rwReaders, rwWriter, rwQueue>>

\* self.auth_wallet.read().await: the guard is given at once when no writer
\* holds the lock and nobody waits for it; otherwise the task queues.
ReadLock(t) ==
    /\ atask[t].pc = "r_lock"
    /\ IF rwWriter = None /\ rwQueue = <<>>
       THEN /\ rwReaders' = rwReaders \cup {t}
            /\ atask' = [atask EXCEPT ![t].pc = "r_in", ![t].guard = authWallet]
            /\ UNCHANGED rwQueue
       ELSE /\ rwQueue' = Append(rwQueue, t)
            /\ atask' = [atask EXCEPT ![t].pc = "r_wait"]
            /\ UNCHANGED rwReaders
    /\ UNCHANGED <<authTokens, authWallet, clientAuthWallet, rwWriter>>

\* self.auth_wallet.write().await: the guard is given at once when the lock is
\* free and nobody waits for it; otherwise the task queues.
WriteLock(t) ==
    /\ atask[t].pc = "w_lock"
    /\ IF rwWriter = None /\ rwReaders = {} /\ rwQueue = <<>>
       THEN /\ rwWriter' = t
            /\ atask' = [atask EXCEPT ![t].pc = "w_in"]
            /\ UNCHANGED rwQueue
       ELSE /\ rwQueue' = Append(rwQueue, t)
            /\ atask' = [atask EXCEPT ![t].pc = "w_wait"]
            /\ UNCHANGED rwWriter
    /\ UNCHANGED <<authTokens, authWallet, clientAuthWallet, rwReaders>>

\* A guard is dropped: the lock is handed to the tasks at the front of the
\* queue, readers as long as no writer is reached, a writer when nobody holds
\* the lock.
RECURSIVE HandOut(_, _, _)
HandOut(readers, writer, queue) ==
    IF queue = <<>> \/ writer # None
        THEN [readers |-> readers, writer |-> writer, queue |-> queue]
    ELSE IF atask[Head(queue)].op = "set_auth_client"
        THEN (IF readers = {}
                 THEN [readers |-> {}, writer |-> Head(queue), queue |-> Tail(queue)]
                 ELSE [readers |-> readers, writer |-> writer, queue |-> queue])
    ELSE HandOut(readers \cup {Head(queue)}, writer, Tail(queue))

\* A task that waited runs again with the guard it was handed.
LockGranted(t) ==
    /\ \/ /\ atask[t].pc = "r_wait"
          /\ t \in rwReaders
          /\ atask' = [atask EXCEPT ![t].pc = "r_in", ![t].guard = authWallet]
       \/ /\ atask[t].pc = "w_wait"
          /\ rwWriter = t
          /\ atask' = [atask EXCEPT ![t].pc = "w_in"]
    /\ UNCHANGED <<authTokens, authWallet, clientAuthWallet, rwReaders, rwWriter, rwQueue>>

\* The read guard is dropped and the call has its result.
ReadDone(t, result) ==
    /\ LET lock == HandOut(rwReaders \ {t}, rwWriter, rwQueue) IN
          /\ rwReaders' = lock.readers
          /\ rwWriter' = lock.writer
          /\ rwQueue' = lock.queue
    /\ atask' = [atask EXCEPT ![t].pc = "done", ![t].result = result]

\* A reader with its guard: get_auth_wallet clones the value; the others match
\* on it and, with Some(auth_wallet), start their call on it.
ReadSection(t) ==
    /\ atask[t].pc = "r_in"
    /\ IF atask[t].op = "get_auth_wallet"
           THEN ReadDone(t, authWallet)
       ELSE IF authWallet = None
           THEN ReadDone(t, ResultWithoutAuthWallet(atask[t].op))
       ELSE /\ atask' = [atask EXCEPT ![t].pc = "r_inner"]
            /\ UNCHANGED <<rwReaders, rwWriter, rwQueue>>
    /\ UNCHANGED <<authTokens, authWallet, clientAuthWallet>>

\* The call on the AuthWallet returns; the guard is dropped with the result.
InnerReturned(t) ==
    /\ atask[t].pc = "r_inner"
    /\ \E result \in InnerResults(atask[t].op) :
          /\ ReadDone(t, result)
          /\ authTokens' = StoredTokens(atask[t].op, result, authTokens)
    /\ UNCHANGED <<authWallet, clientAuthWallet>>

\* Variant: the write guard is dropped as soon as the wallet's value is
\* replaced, before the client is updated.
WriteSectionDropsGuard(t) ==
    /\ atask[t].pc = "w_in"
    /\ authWallet' = atask[t].arg
    /\ LET lock == HandOut(rwReaders, None, rwQueue) IN
          /\ rwReaders' = lock.readers
          /\ rwWriter' = lock.writer
          /\ rwQueue' = lock.queue
    /\ atask' = [atask EXCEPT ![t].pc = "w_client"]
    /\ UNCHANGED <<authTokens, clientAuthWallet>>

\* set_auth_client with the write guard: *auth_wallet_guard = auth_wallet.clone().
WriteSection(t) ==
    /\ atask[t].pc = "w_in"
    /\ authWallet' = atask[t].arg
    /\ atask' = [atask EXCEPT ![t].pc = "w_client"]
    /\ UNCHANGED <<authTokens, clientAuthWallet, rwReaders, rwWriter, rwQueue>>

\* Variant: set_auth_client returns without the call on the client.
ClientNotUpdated(t) ==
    /\ atask[t].pc = "w_client"
    /\ LET lock == HandOut(rwReaders, None, rwQueue) IN
          /\ rwReaders' = lock.readers
          /\ rwWriter' = lock.writer
          /\ rwQueue' = lock.queue
    /\ atask' = [atask EXCEPT ![t].pc = "done", ![t].result = "Ok"]
    /\ UNCHANGED <<authTokens, authWallet, clientAuthWallet>>

\* self.client.set_auth_wallet(auth_wallet).await returns; the write guard is
\* dropped at the end of the function.
ClientUpdated(t) ==
    /\ atask[t].pc = "w_client"
    /\ clientAuthWallet' = atask[t].arg
    /\ LET lock == HandOut(rwReaders, None, rwQueue) IN
          /\ rwReaders' = lock.readers
          /\ rwWriter' = lock.writer
          /\ rwQueue' = lock.queue
    /\ atask' = [atask EXCEPT ![t].pc = "done", ![t].result = "Ok"]
    /\ UNCHANGED <<authTokens, authWallet>>

\* The caller takes the result.
AuthReturn(t) ==
    /\ atask[t].pc = "done"
    /\ atask' = [atask EXCEPT ![t] = IdleAuthTask]
    /\ UNCHANGED <<authTokens, authWallet, clientAuthWallet, rwReaders, rwWriter, rwQueue>>

AuthIdle ==
    /\ authWallet = None
    /\ clientAuthWallet = None
    /\ authTokens = {}
    /\ rwReaders = {}
    /\ rwWriter = None
    /\ rwQueue = <<>>
    /\ atask = [t \in AuthTasks |-> IdleAuthTask]

AuthInit ==
    /\ authWallet \in AuthWallets \cup {None}
    /\ clientAuthWallet = authWallet
    /\ authTokens = {}
    /\ rwReaders = {}
    /\ rwWriter = None
    /\ rwQueue = <<>>
    /\ atask = [t \in AuthTasks |-> IdleAuthTask]

AuthNext ==
    \E t \in AuthTasks :
        \/ AuthCall(t)
        \/ ReadLock(t)
        \/ WriteLock(t)
        \/ LockGranted(t)
        \/ ReadSection(t)
        \/ InnerReturned(t)
        \/ WriteSection(t)
        \/ ClientUpdated(t)
        \/ AuthReturn(t)


(***************************************************************************)
(* LIGHTNING MELT QUOTE RESPONSE (MeltQuoteBolt11Response) and QuoteState  *)
(***************************************************************************)

\* nut23::QuoteState.
MintStates == {"Unpaid", "Paid", "Issued"}

\* Strings given to from_str and sent as "state".
StateStrings ==
    {"UNPAID", "PAID", "PENDING", "UNKNOWN", "FAILED", "ISSUED", "paid", "Paid", "", "BOGUS"}

\* impl Display for nut05::QuoteState.
MeltQuoteStateDisplay(state) ==
    CASE state = "Unpaid"  -> "UNPAID"
      [] state = "Paid"    -> "PAID"
      [] state = "Pending" -> "PENDING"
      [] state = "Unknown" -> "UNKNOWN"
      [] state = "Failed"  -> "FAILED"

\* Variant: the state string is matched without regard to case.
MeltQuoteStateFromStrAnyCase(str) ==
    CASE str = "PENDING"            -> "Pending"
      [] str \in {"PAID", "Paid", "paid"} -> "Paid"
      [] str = "UNPAID"             -> "Unpaid"
      [] str = "UNKNOWN"            -> "Unknown"
      [] str = "FAILED"             -> "Failed"
      [] OTHER                      -> "Err:UnknownState"

\* impl FromStr for nut05::QuoteState.
MeltQuoteStateFromStr(str) ==
    CASE str = "PENDING" -> "Pending"
      [] str = "PAID"    -> "Paid"
      [] str = "UNPAID"  -> "Unpaid"
      [] str = "UNKNOWN" -> "Unknown"
      [] str = "FAILED"  -> "Failed"
      [] OTHER           -> "Err:UnknownState"

\* impl Display for nut23::QuoteState.
MintQuoteStateDisplay(state) ==
    CASE state = "Unpaid" -> "UNPAID"
      [] state = "Paid"   -> "PAID"
      [] state = "Issued" -> "ISSUED"

\* impl FromStr for nut23::QuoteState.
MintQuoteStateFromStr(str) ==
    CASE str = "PAID"   -> "Paid"
      [] str = "UNPAID" -> "Unpaid"
      [] str = "ISSUED" -> "Issued"
      [] OTHER          -> "Err:UnknownState"

\* JSON values as they stand in a document: a string, a number, a boolean,
\* null, an array; and a member that is not in the object.
Absent == "absent"

JsonNull == "null"

JsonString(x) == "s:" \o x

JsonNumber(n) == "n:" \o ToString(n)

JsonBool(b) == "b:" \o b

JsonArray(x) == "a:" \o x

\* The strings of the model.
Strings == StateStrings \cup {"q1", "pre", "req", "sat", "usd"}

IsJsonString(v) == \E x \in Strings : JsonString(x) = v

StringOf(v) == CHOOSE x \in Strings : JsonString(x) = v

\* Value::as_u64.
IsU64(v) == \E n \in 0..MaxAmount : JsonNumber(n) = v

U64Of(v) == CHOOSE n \in 0..MaxAmount : JsonNumber(n) = v

\* serde_json::from_value::<String>(v).ok() and its like for the optional
\* members: Some when the member is there and has the type, None otherwise.
OptionalString(v) == IF IsJsonString(v) THEN StringOf(v) ELSE None

\* JSON objects a peer sends.
MeltResponseJsons ==
    [quote : {Absent, JsonString("q1"), JsonNumber(1)},
     amount : {Absent, JsonNumber(1), JsonString("q1")},
     fee_reserve : {Absent, JsonNumber(0)},
     paid : {Absent, JsonNull, JsonBool("true"), JsonBool("false"), JsonString("paid")},
     state : {Absent, JsonNull, JsonNumber(1)} \cup {JsonString(x) : x \in StateStrings},
     expiry : {Absent, JsonNumber(1)},
     payment_preimage : {Absent, JsonNull, JsonString("pre")},
     change : {Absent, JsonArray("sigs")},
     request : {Absent, JsonString("req")},
     unit : {Absent, JsonString("sat")}]

NoMeltResponseJson ==
    [quote |-> Absent, amount |-> Absent, fee_reserve |-> Absent, paid |-> Absent,
     state |-> Absent, expiry |-> Absent, payment_preimage |-> Absent,
     change |-> Absent, request |-> Absent, unit |-> Absent]

\* MeltQuoteBolt11Response<String> values a program can build.
MeltResponses ==
    [ok : {TRUE}, err : {None}, quote : {"q1"}, amount : {1}, fee_reserve : {0},
     paid : {None, "true", "false"}, state : MeltStates, expiry : {1},
     payment_preimage : {None, "pre"}, change : {None, "sigs"},
     request : {None, "req"}, unit : {None, "sat"}]

MeltResponseError(e) ==
    [ok |-> FALSE, err |-> e, quote |-> None, amount |-> 0, fee_reserve |-> 0,
     paid |-> None, state |-> None, expiry |-> 0, payment_preimage |-> None,
     change |-> None, request |-> None, unit |-> None]

\* Variant: a paid flag, when there is one, decides before the state string.
StateAndPaidFlagFirst(state, paid) ==
    IF state = None /\ paid = None
        THEN [err |-> "State or paid must be defined", state |-> None, paid |-> None]
    ELSE IF paid # None
        THEN [err |-> None, state |-> IF paid = "true" THEN "Paid" ELSE "Unpaid",
              paid |-> paid]
    ELSE IF MeltQuoteStateFromStr(state) = "Err:UnknownState"
        THEN [err |-> "Unknown state", state |-> None, paid |-> None]
    ELSE [err |-> None, state |-> MeltQuoteStateFromStr(state),
          paid |-> IF MeltQuoteStateFromStr(state) = "Paid" THEN "true" ELSE "false"]

\* Variant: a response with neither state nor paid is read as Unpaid.
StateAndPaidDefaultsToUnpaid(state, paid) ==
    IF state = None /\ paid = None
        THEN [err |-> None, state |-> "Unpaid", paid |-> "false"]
    ELSE IF state # None
        THEN (IF MeltQuoteStateFromStr(state) = "Err:UnknownState"
                 THEN [err |-> "Unknown state", state |-> None, paid |-> None]
                 ELSE [err |-> None, state |-> MeltQuoteStateFromStr(state),
                       paid |-> IF MeltQuoteStateFromStr(state) = "Paid" THEN "true"
                                                                          ELSE "false"])
    ELSE [err |-> None, state |-> IF paid = "true" THEN "Paid" ELSE "Unpaid", paid |-> paid]

\* Variant: with a state string the paid flag of the input, when there is one,
\* is kept as it came.
StateAndPaidKeepsFlag(state, paid) ==
    IF state = None /\ paid = None
        THEN [err |-> "State or paid must be defined", state |-> None, paid |-> None]
    ELSE IF state # None
        THEN (IF MeltQuoteStateFromStr(state) = "Err:UnknownState"
                 THEN [err |-> "Unknown state", state |-> None, paid |-> None]
                 ELSE [err |-> None, state |-> MeltQuoteStateFromStr(state),
                       paid |-> IF paid # None THEN paid
                                ELSE IF MeltQuoteStateFromStr(state) = "Paid" THEN "true"
                                ELSE "false"])
    ELSE [err |-> None, state |-> IF paid = "true" THEN "Paid" ELSE "Unpaid", paid |-> paid]

\* The (state, paid) match of the deserializer: a state string decides alone
\* and sets paid, otherwise paid decides, otherwise an error.
StateAndPaid(state, paid) ==
    IF state = None /\ paid = None
        THEN [err |-> "State or paid must be defined", state |-> None, paid |-> None]
    ELSE IF state # None
        THEN (IF MeltQuoteStateFromStr(state) = "Err:UnknownState"
                 THEN [err |-> "Unknown state", state |-> None, paid |-> None]
                 ELSE [err |-> None, state |-> MeltQuoteStateFromStr(state),
                       paid |-> IF MeltQuoteStateFromStr(state) = "Paid" THEN "true"
                                                                          ELSE "false"])
    ELSE [err |-> None, state |-> IF paid = "true" THEN "Paid" ELSE "Unpaid", paid |-> paid]

\* impl Deserialize for MeltQuoteBolt11Response<String>.
DeserializeMeltQuoteBolt11Response(value) ==
    LET paid == IF value.paid = JsonBool("true") THEN "true"
                ELSE IF value.paid = JsonBool("false") THEN "false"
                ELSE None
        state == OptionalString(value.state)
        sp == StateAndPaid(state, paid)
    IN
    IF value.quote = Absent THEN MeltResponseError("missing field quote")
    ELSE IF ~IsJsonString(value.quote) THEN MeltResponseError("Invalid quote if string")
    ELSE IF ~IsU64(value.amount) THEN MeltResponseError("missing field amount")
    ELSE IF ~IsU64(value.fee_reserve) THEN MeltResponseError("missing field fee_reserve")
    ELSE IF sp.err # None THEN MeltResponseError(sp.err)
    ELSE IF ~IsU64(value.expiry) THEN MeltResponseError("missing field expiry")
    ELSE [ok |-> TRUE, err |-> None, quote |-> StringOf(value.quote),
          amount |-> U64Of(value.amount), fee_reserve |-> U64Of(value.fee_reserve),
          paid |-> sp.paid, state |-> sp.state, expiry |-> U64Of(value.expiry),
          payment_preimage |-> OptionalString(value.payment_preimage),
          change |-> IF value.change = Absent THEN None ELSE "sigs",
          request |-> OptionalString(value.request),
          unit |-> OptionalString(value.unit)]

\* A member with skip_serializing_if = "Option::is_none".
SkippedIfNone(v, json) == IF v = None THEN Absent ELSE json

\* derive(Serialize) for MeltQuoteBolt11Response<String>: paid is written as
\* null when None, the state in upper case, the last four members only when Some.
SerializeMeltQuoteBolt11Response(r) ==
    [quote |-> JsonString(r.quote), amount |-> JsonNumber(r.amount),
     fee_reserve |-> JsonNumber(r.fee_reserve),
     paid |-> IF r.paid = None THEN JsonNull ELSE JsonBool(r.paid),
     state |-> JsonString(MeltQuoteStateDisplay(r.state)),
     expiry |-> JsonNumber(r.expiry),
     payment_preimage |-> SkippedIfNone(r.payment_preimage, JsonString("pre")),
     change |-> SkippedIfNone(r.change, JsonArray("sigs")),
     request |-> SkippedIfNone(r.request, JsonString("req")),
     unit |-> SkippedIfNone(r.unit, JsonString("sat"))]

\* A peer's response arrives.
ReceiveMeltResponse ==
    /\ mrPhase = "start"
    /\ mrJson' \in MeltResponseJsons
    /\ mrPhase' = "wire"
    /\ UNCHANGED <<mrValue, mrResult, qsKind, qsInput, qsParsed, qsShown>>

\* The program builds a response.
ConstructMeltResponse ==
    /\ mrPhase = "start"
    /\ mrValue' \in MeltResponses
    /\ mrPhase' = "value"
    /\ UNCHANGED <<mrJson, mrResult, qsKind, qsInput, qsParsed, qsShown>>

\* serde_json::to_string(&response).
SerializeMeltResponse ==
    /\ mrPhase = "value"
    /\ mrJson' = SerializeMeltQuoteBolt11Response(mrValue)
    /\ mrPhase' = "wire"
    /\ UNCHANGED <<mrValue, mrResult, qsKind, qsInput, qsParsed, qsShown>>

\* serde_json::from_str::<MeltQuoteBolt11Response<String>>(json).
DeserializeMeltResponse ==
    /\ mrPhase = "wire"
    /\ mrResult' = DeserializeMeltQuoteBolt11Response(mrJson)
    /\ mrPhase' = "parsed"
    /\ UNCHANGED <<mrValue, mrJson, qsKind, qsInput, qsParsed, qsShown>>

\* QuoteState::from_str(str) of nut05 (melt) or nut23 (mint).
ParseQuoteState ==
    /\ mrPhase = "start"
    /\ \E kind \in {"mint", "melt"}, str \in StateStrings :
          /\ qsKind' = kind
          /\ qsInput' = str
          /\ qsParsed' = IF kind = "melt" THEN MeltQuoteStateFromStr(str)
                                          ELSE MintQuoteStateFromStr(str)
    /\ mrPhase' = "state_parsed"
    /\ UNCHANGED <<mrValue, mrJson, mrResult, qsShown>>

\* state.to_string() of a parsed state.
DisplayQuoteState ==
    /\ mrPhase = "state_parsed"
    /\ qsParsed # "Err:UnknownState"
    /\ qsShown' = IF qsKind = "melt" THEN MeltQuoteStateDisplay(qsParsed)
                                     ELSE MintQuoteStateDisplay(qsParsed)
    /\ mrPhase' = "state_shown"
    /\ UNCHANGED <<mrValue, mrJson, mrResult, qsKind, qsInput, qsParsed>>

MeltResponseIdle ==
    /\ mrPhase = "start"
    /\ mrValue = MeltResponseError(None)
    /\ mrJson = NoMeltResponseJson
    /\ mrResult = MeltResponseError(None)
    /\ qsKind = "melt"
    /\ qsInput = ""
    /\ qsParsed = None
    /\ qsShown = None

MeltResponseInit == MeltResponseIdle

MeltResponseNext ==
    \/ ReceiveMeltResponse
    \/ ConstructMeltResponse
    \/ SerializeMeltResponse
    \/ DeserializeMeltResponse
    \/ ParseQuoteState
    \/ DisplayQuoteState


(***************************************************************************)
(* LIGHTNING MELT QUOTE REQUEST (MeltQuoteRequest<Bolt11MeltRequestFields>)*)
(***************************************************************************)

\* Currency units of the model, by their wire names.
Units == {"sat", "usd"}

\* Option<MeltOptions>: None, Mpp { mpp: Mpp { amount } } or
\* Amountless { amountless: Amountless { amount_msat } }.
NoOptions == [kind |-> None, amount |-> 0]

MeltOptionsValues ==
    {NoOptions} \cup [kind : {"Mpp", "Amountless"}, amount : 0..MaxAmount]

\* A member holding an object with one number in it ({"amount": n} under mpp,
\* {"amount_msat": n} under amountless), or an object without it, or null, or
\* no member at all.
AbsentMember == [kind |-> Absent, inner |-> Absent]

ObjectMember(inner) == [kind |-> "object", inner |-> inner]

OptionMembers ==
    {AbsentMember, [kind |-> JsonNull, inner |-> Absent], ObjectMember(Absent)}
        \cup {ObjectMember(JsonNumber(n)) : n \in 0..MaxAmount}

\* JSON objects a peer sends; "options" stands for the option written under a
\* nested key.
MeltRequestJsons ==
    [request : {Absent, JsonString("req")},
     unit : {Absent} \cup {JsonString(u) : u \in Units},
     mpp : OptionMembers,
     amountless : OptionMembers,
     options : {AbsentMember, ObjectMember(JsonNumber(1))}]

NoMeltRequestJson ==
    [request |-> Absent, unit |-> Absent, mpp |-> AbsentMember,
     amountless |-> AbsentMember, options |-> AbsentMember]

\* Requests a program can build.
MeltQuoteRequests ==
    [ok : {TRUE}, err : {None}, request : {"req"}, unit : Units,
     options : MeltOptionsValues]

MeltRequestError(e) ==
    [ok |-> FALSE, err |-> e, request |-> None, unit |-> None, options |-> NoOptions]

\* Variant: the option is written under a nested key "options".
SerializeMeltQuoteRequestNested(r) ==
    [request |-> JsonString(r.request),
     unit |-> JsonString(r.unit),
     mpp |-> AbsentMember,
     amountless |-> AbsentMember,
     options |-> IF r.options.kind = None THEN AbsentMember
                 ELSE ObjectMember(JsonNumber(r.options.amount))]

\* derive(Serialize) of MeltQuoteRequest with method_fields flattened, of
\* Bolt11MeltRequestFields with options flattened, and of the untagged
\* MeltOptions: the variant's one member lands beside request and unit, and
\* None writes nothing.
SerializeMeltQuoteRequest(r) ==
    [request |-> JsonString(r.request),
     unit |-> JsonString(r.unit),
     mpp |-> IF r.options.kind = "Mpp"
                 THEN ObjectMember(JsonNumber(r.options.amount)) ELSE AbsentMember,
     amountless |-> IF r.options.kind = "Amountless"
                        THEN ObjectMember(JsonNumber(r.options.amount)) ELSE AbsentMember,
     options |-> AbsentMember]

\* A member that deserializes as Mpp / Amountless: an object with its number.
IsOptionObject(member) == member.kind = "object" /\ IsU64(member.inner)

\* derive(Deserialize) of the flattened Option<MeltOptions>: the untagged
\* variants are tried in order on the members left over, Mpp first, and a
\* failure of both gives None.
DeserializeMeltOptions(json) ==
    IF IsOptionObject(json.mpp)
        THEN [kind |-> "Mpp", amount |-> U64Of(json.mpp.inner)]
    ELSE IF IsOptionObject(json.amountless)
        THEN [kind |-> "Amountless", amount |-> U64Of(json.amountless.inner)]
    ELSE NoOptions

\* derive(Deserialize) of MeltQuoteRequest<Bolt11MeltRequestFields>.
DeserializeMeltQuoteRequest(json) ==
    IF json.request = Absent THEN MeltRequestError("missing field request")
    ELSE IF json.unit = Absent THEN MeltRequestError("missing field unit")
    ELSE [ok |-> TRUE, err |-> None, request |-> StringOf(json.request),
          unit |-> StringOf(json.unit), options |-> DeserializeMeltOptions(json)]

\* A peer's request arrives.
ReceiveMeltRequest ==
    /\ mqPhase = "start"
    /\ mqJson' \in MeltRequestJsons
    /\ mqPhase' = "wire"
    /\ UNCHANGED <<mqValue, mqResult>>

\* MeltQuoteRequest::new(request, unit, Bolt11MeltRequestFields { options }).
NewMeltQuoteRequest ==
    /\ mqPhase = "start"
    /\ mqValue' \in MeltQuoteRequests
    /\ mqPhase' = "value"
    /\ UNCHANGED <<mqJson, mqResult>>

\* serde_json::to_value(&request).
SerializeMeltRequest ==
    /\ mqPhase = "value"
    /\ mqJson' = SerializeMeltQuoteRequest(mqValue)
    /\ mqPhase' = "wire"
    /\ UNCHANGED <<mqValue, mqResult>>

\* serde_json::from_value::<MeltQuoteRequest<Bolt11MeltRequestFields>>(json).
DeserializeMeltRequest ==
    /\ mqPhase = "wire"
    /\ mqResult' = DeserializeMeltQuoteRequest(mqJson)
    /\ mqPhase' = "parsed"
    /\ UNCHANGED <<mqValue, mqJson>>

MeltRequestIdle ==
    /\ mqPhase = "start"
    /\ mqValue = MeltRequestError(None)
    /\ mqJson = NoMeltRequestJson
    /\ mqResult = MeltRequestError(None)

MeltRequestInit == MeltRequestIdle

MeltRequestNext ==
    \/ ReceiveMeltRequest
    \/ NewMeltQuoteRequest
    \/ SerializeMeltRequest
    \/ DeserializeMeltRequest


(***************************************************************************)
(* TOTAL-AMOUNT HELPERS: MintRequest::total_amount, MeltRequest::inputs_amount *)
(***************************************************************************)

\* Width of the amount type in bits, and the most outputs or inputs of a request.
AmountBits == 3

MaxItems == 3

\* Largest value of the amount type.
AmountMaxValue == 2 ^ AmountBits - 1

AmountValues == 0..AmountMaxValue

\* Amount collections of a request.
AmountSeqs == UNION {[1..n -> AmountValues] : n \in 0..MaxItems}

SumOk(v) == [ok |-> TRUE, value |-> v, err |-> None]

SumErr(e) == [ok |-> FALSE, value |-> 0, err |-> e]

\* Checked addition of two amounts: the sum, or nothing when it does not fit.
CheckedAdd(a, b) == IF a + b > AmountMaxValue THEN SumErr("Overflow") ELSE SumOk(a + b)

\* Amount::try_sum: checked addition from zero over the collection, stopping
\* at the first sum that does not fit.
RECURSIVE TrySumFrom(_, _)
TrySumFrom(acc, amounts) ==
    IF amounts = <<>> THEN SumOk(acc)
    ELSE LET next == CheckedAdd(acc, Head(amounts)) IN
         IF next.ok THEN TrySumFrom(next.value, Tail(amounts)) ELSE next

TrySum(amounts) == TrySumFrom(0, amounts)

\* The arithmetic sum in the width of the amount type.
RECURSIVE WrappingSum(_)
WrappingSum(amounts) ==
    IF amounts = <<>> THEN 0
    ELSE (Head(amounts) + WrappingSum(Tail(amounts))) % (2 ^ AmountBits)

\* Variant: the outputs are added in the width of the amount type.
MintRequestTotalAmountWrapping(outputs) == SumOk(WrappingSum(outputs))

\* MintRequest::total_amount: try_sum over the outputs' amounts, any error
\* mapped to AmountOverflow.
MintRequestTotalAmount(outputs) ==
    IF TrySum(outputs).ok THEN TrySum(outputs) ELSE SumErr("AmountOverflow")

\* MeltRequest::inputs_amount: try_sum over the inputs' amounts, any error
\* mapped to AmountOverflow.
MeltRequestInputsAmount(inputs) ==
    IF TrySum(inputs).ok THEN TrySum(inputs) ELSE SumErr("AmountOverflow")

\* A mint request with its outputs.
NewMintRequest ==
    /\ saPhase = "start"
    /\ saAmounts' \in AmountSeqs
    /\ saKind' = "mint"
    /\ saPhase' = "built"
    /\ UNCHANGED saResult

\* A melt request with its inputs.
NewMeltRequest ==
    /\ saPhase = "start"
    /\ saAmounts' \in AmountSeqs
    /\ saKind' = "melt"
    /\ saPhase' = "built"
    /\ UNCHANGED saResult

\* request.total_amount().
TotalAmount ==
    /\ saPhase = "built"
    /\ saKind = "mint"
    /\ saResult' = MintRequestTotalAmount(saAmounts)
    /\ saPhase' = "summed"
    /\ UNCHANGED <<saKind, saAmounts>>

\* request.inputs_amount().
InputsAmount ==
    /\ saPhase = "built"
    /\ saKind = "melt"
    /\ saResult' = MeltRequestInputsAmount(saAmounts)
    /\ saPhase' = "summed"
    /\ UNCHANGED <<saKind, saAmounts>>

SumIdle ==
    /\ saPhase = "start"
    /\ saKind = "mint"
    /\ saAmounts = <<>>
    /\ saResult = SumErr(None)

SumInit == SumIdle

SumNext ==
    \/ NewMintRequest
    \/ NewMeltRequest
    \/ TotalAmount
    \/ InputsAmount


(***************************************************************************)
(* LIGHTNING MINT QUOTE REQUEST: MintQuoteBolt11Request and                *)
(* MintQuoteRequest<Bolt11MintRequestFields>                               *)
(***************************************************************************)

\* The values both requests are built from; description and pubkey are options.
MintRequestArgs ==
    [amount : 0..MaxAmount, unit : Units,
     description : {None, "", "memo"}, pubkey : {None, "02ab"}]

NoMintRequestArgs == [amount |-> 0, unit |-> None, description |-> None, pubkey |-> None]

\* One member of a JSON object, and the members of an optional field with
\* skip_serializing_if = "Option::is_none".
Member(k, v) == <<[k |-> k, v |-> v]>>

OptionalStringMember(k, v) == IF v = None THEN <<>> ELSE Member(k, JsonString(v))

\* derive(Serialize) of MintQuoteBolt11Request: amount, unit, description, pubkey.
SerializeMintQuoteBolt11Request(r) ==
    Member("amount", JsonNumber(r.amount)) \o Member("unit", JsonString(r.unit))
        \o OptionalStringMember("description", r.description)
        \o OptionalStringMember("pubkey", r.pubkey)

\* Variant: the method fields write null for an option that is None.
SerializeBolt11MintRequestFieldsWithNull(f) ==
    Member("description", IF f.description = None THEN JsonNull
                                                  ELSE JsonString(f.description))
        \o Member("pubkey", IF f.pubkey = None THEN JsonNull ELSE JsonString(f.pubkey))

\* derive(Serialize) of Bolt11MintRequestFields: description, pubkey.
SerializeBolt11MintRequestFields(f) ==
    OptionalStringMember("description", f.description)
        \o OptionalStringMember("pubkey", f.pubkey)

\* derive(Serialize) of MintQuoteRequest<M>: amount, unit, then the members of
\* the flattened method fields.
SerializeMintQuoteRequest(r) ==
    Member("amount", JsonNumber(r.amount)) \o Member("unit", JsonString(r.unit))
        \o SerializeBolt11MintRequestFields(r.method_fields)

\* MintQuoteRequest::new(amount, unit, Bolt11MintRequestFields { description, pubkey }).
NewMintQuoteRequest(args) ==
    [amount |-> args.amount, unit |-> args.unit,
     method_fields |-> [description |-> args.description, pubkey |-> args.pubkey]]

\* The values are chosen; both requests are built from them.
BuildMintQuoteRequests ==
    /\ nrPhase = "start"
    /\ nrArgs' \in MintRequestArgs
    /\ nrPhase' = "built"
    /\ UNCHANGED <<nrLegacy, nrGeneric>>

\* serde_json::to_value(&old_request).
SerializeLegacyMintRequest ==
    /\ nrPhase = "built"
    /\ nrLegacy = <<>>
    /\ nrLegacy' = SerializeMintQuoteBolt11Request(nrArgs)
    /\ UNCHANGED <<nrPhase, nrArgs, nrGeneric>>

\* serde_json::to_value(&new_request).
SerializeGenericMintRequest ==
    /\ nrPhase = "built"
    /\ nrGeneric = <<>>
    /\ nrGeneric' = SerializeMintQuoteRequest(NewMintQuoteRequest(nrArgs))
    /\ UNCHANGED <<nrPhase, nrArgs, nrLegacy>>

MintRequestIdle ==
    /\ nrPhase = "start"
    /\ nrArgs = NoMintRequestArgs
    /\ nrLegacy = <<>>
    /\ nrGeneric = <<>>

MintRequestInit == MintRequestIdle

MintRequestNext ==
    \/ BuildMintQuoteRequests
    \/ SerializeLegacyMintRequest
    \/ SerializeGenericMintRequest


(***************************************************************************)
(* KV STORE ADAPTER: impl KVStore for SQLLdkDatabase                       *)
(***************************************************************************)

LdkPrimaries == {"p1", "p2"}

LdkSecondaries == {"s1"}

LdkKeys == {"k1", "k2"}

\* A row is addressed by (primary namespace, secondary namespace, key).
LdkPaths == LdkPrimaries \X LdkSecondaries \X LdkKeys

\* buf: &[u8]; the empty buffer is a value a caller can write.
LdkBufs == {"", "ab"}

\* ldkLast of a row no call has written or removed.
Never == "never"

Removed == "removed"

LdkNoWrites == [x \in LdkPaths |-> Keep]

NoLdkCall ==
    [pc |-> "idle", op |-> None, primary |-> None, secondary |-> None, key |-> None,
     buf |-> None, lazy |-> FALSE, writes |-> LdkNoWrites,
     result |-> None, bytes |-> None, keys |-> {}]

\* The adapter calls of the model, with their arguments.
LdkCalls ==
    {[NoLdkCall EXCEPT !.op = "read", !.primary = p, !.secondary = s, !.key = k] :
        p \in LdkPrimaries, s \in LdkSecondaries, k \in LdkKeys}
    \cup {[NoLdkCall EXCEPT !.op = "write", !.primary = p, !.secondary = s, !.key = k,
                            !.buf = b] :
            p \in LdkPrimaries, s \in LdkSecondaries, k \in LdkKeys, b \in LdkBufs}
    \cup {[NoLdkCall EXCEPT !.op = "remove", !.primary = p, !.secondary = s, !.key = k,
                            !.lazy = l] :
            p \in LdkPrimaries, s \in LdkSecondaries, k \in LdkKeys, l \in BOOLEAN}
    \cup {[NoLdkCall EXCEPT !.op = "list", !.primary = p, !.secondary = s] :
            p \in LdkPrimaries, s \in LdkSecondaries}

PathOf(call) == <<call.primary, call.secondary, call.key>>

\* tx.kv_read(primary, secondary, key): Some(bytes) of the row, None without one.
LdkKvRead(store, call) == store[PathOf(call)]

\* tx.kv_list(primary, secondary): the keys of the rows in the namespace.
LdkKvList(store, call) ==
    {k \in LdkKeys : store[<<call.primary, call.secondary, k>>] # None}

\* tx.kv_write(primary, secondary, key, buf): the row is set.
LdkKvWrite(call) == [LdkNoWrites EXCEPT ![PathOf(call)] = call.buf]

\* Variant: a lazy removal is put off and not part of the transaction.
LdkKvRemoveLazily(call) ==
    IF call.lazy THEN LdkNoWrites ELSE [LdkNoWrites EXCEPT ![PathOf(call)] = None]

\* tx.kv_remove(primary, secondary, key): the row is deleted; _lazy is not used.
LdkKvRemove(call) == [LdkNoWrites EXCEPT ![PathOf(call)] = None]

\* commit: the transaction's writes become the committed rows.
LdkApplied(store, writes) ==
    [x \in LdkPaths |-> IF writes[x] = Keep THEN store[x] ELSE writes[x]]

\* The call returns: the transaction, committed or dropped, is gone.
LdkReturns(result) ==
    ldkCall' = [ldkCall EXCEPT !.pc = "done", !.writes = LdkNoWrites, !.result = result]

\* An adapter function is called: begin_transaction().await is pending.
LdkCalled ==
    /\ ldkCall.pc = "idle"
    /\ \E call \in LdkCalls : ldkCall' = [call EXCEPT !.pc = "begin"]
    /\ UNCHANGED <<ldkStore, ldkLast>>

\* begin_transaction returns: Ok(tx) goes on to the operation, Err is mapped
\* to ErrorKind::Other and returned.
LdkBegun ==
    /\ ldkCall.pc = "begin"
    /\ \/ ldkCall' = [ldkCall EXCEPT !.pc = "op"]
       \/ LdkReturns("Other")
    /\ UNCHANGED <<ldkStore, ldkLast>>

\* read: kv_read on the transaction, which is then dropped; Some(bytes) is
\* Ok(bytes), None is ErrorKind::NotFound, Err is ErrorKind::Other.
LdkRead ==
    /\ ldkCall.pc = "op"
    /\ ldkCall.op = "read"
    /\ LET found == LdkKvRead(ldkStore, ldkCall) IN
       \/ /\ found # None
          /\ ldkCall' = [ldkCall EXCEPT !.pc = "done", !.result = "Ok", !.bytes = found]
       \/ /\ found = None
          /\ LdkReturns("NotFound")
       \/ LdkReturns("Other")
    /\ UNCHANGED <<ldkStore, ldkLast>>

\* list: kv_list on the transaction, which is then dropped.
LdkListed ==
    /\ ldkCall.pc = "op"
    /\ ldkCall.op = "list"
    /\ \/ ldkCall' = [ldkCall EXCEPT !.pc = "done", !.result = "Ok",
                                     !.keys = LdkKvList(ldkStore, ldkCall)]
       \/ LdkReturns("Other")
    /\ UNCHANGED <<ldkStore, ldkLast>>

\* write: kv_write on the transaction; Ok goes on to commit, Err returns.
LdkWritten ==
    /\ ldkCall.pc = "op"
    /\ ldkCall.op = "write"
    /\ \/ ldkCall' = [ldkCall EXCEPT !.pc = "commit", !.writes = LdkKvWrite(ldkCall)]
       \/ LdkReturns("Other")
    /\ UNCHANGED <<ldkStore, ldkLast>>

\* remove: kv_remove on the transaction; Ok goes on to commit, Err returns.
LdkRemoved ==
    /\ ldkCall.pc = "op"
    /\ ldkCall.op = "remove"
    /\ \/ ldkCall' = [ldkCall EXCEPT !.pc = "commit", !.writes = LdkKvRemove(ldkCall)]
       \/ LdkReturns("Other")
    /\ UNCHANGED <<ldkStore, ldkLast>>

\* tx.commit() returns: Ok makes the writes the committed rows and the call
\* returns Ok(()), Err leaves the rows and the call returns ErrorKind::Other.
LdkCommitted ==
    /\ ldkCall.pc = "commit"
    /\ \/ /\ ldkStore' = LdkApplied(ldkStore, ldkCall.writes)
          /\ ldkLast' = [ldkLast EXCEPT ![PathOf(ldkCall)] =
                            IF ldkCall.op = "write" THEN ldkCall.buf ELSE Removed]
          /\ LdkReturns("Ok")
       \/ /\ LdkReturns("Other")
          /\ UNCHANGED <<ldkStore, ldkLast>>

\* The caller takes the result; the next call can start.
LdkReturn ==
    /\ ldkCall.pc = "done"
    /\ ldkCall' = NoLdkCall
    /\ UNCHANGED <<ldkStore, ldkLast>>

LdkIdle ==
    /\ ldkStore = [x \in LdkPaths |-> None]
    /\ ldkLast = [x \in LdkPaths |-> Never]
    /\ ldkCall = NoLdkCall

LdkInit == LdkIdle

LdkNext ==
    \/ LdkCalled
    \/ LdkBegun
    \/ LdkRead
    \/ LdkListed
    \/ LdkWritten
    \/ LdkRemoved
    \/ LdkCommitted
    \/ LdkReturn


(***************************************************************************)
(* SPECIFICATIONS: one per area                                            *)
(***************************************************************************)

InitSettings ==
    /\ SettingsInit
    /\ JsonIdle
    /\ WalletIdle
    /\ TxIdle
    /\ MintIdle
    /\ MeltIdle
    /\ AuthIdle
    /\ MeltResponseIdle
    /\ MeltRequestIdle
    /\ SumIdle
    /\ MintRequestIdle
    /\ LdkIdle

NextSettings ==
    /\ SettingsNext
    /\ UNCHANGED <<jsonVars, walletVars, txVars, mintVars, meltVars,
                   authVars, meltResponseVars, meltRequestVars, sumVars,
                   mintRequestVars, ldkVars>>

SpecSettings == InitSettings /\ [][NextSettings]_vars

InitJson ==
    /\ SettingsIdle
    /\ JsonInit
    /\ WalletIdle
    /\ TxIdle
    /\ MintIdle
    /\ MeltIdle
    /\ AuthIdle
    /\ MeltResponseIdle
    /\ MeltRequestIdle
    /\ SumIdle
    /\ MintRequestIdle
    /\ LdkIdle

NextJson ==
    /\ JsonNext
    /\ UNCHANGED <<settingsVars, walletVars, txVars, mintVars, meltVars,
                   authVars, meltResponseVars, meltRequestVars, sumVars,
                   mintRequestVars, ldkVars>>

SpecJson == InitJson /\ [][NextJson]_vars

InitWallet ==
    /\ SettingsIdle
    /\ JsonIdle
    /\ WalletInit
    /\ TxIdle
    /\ MintIdle
    /\ MeltIdle
    /\ AuthIdle
    /\ MeltResponseIdle
    /\ MeltRequestIdle
    /\ SumIdle
    /\ MintRequestIdle
    /\ LdkIdle

NextWallet ==
    /\ WalletNext
    /\ UNCHANGED <<settingsVars, jsonVars, txVars, mintVars, meltVars,
                   authVars, meltResponseVars, meltRequestVars, sumVars,
                   mintRequestVars, ldkVars>>

SpecWallet == InitWallet /\ [][NextWallet]_vars

InitTx ==
    /\ SettingsIdle
    /\ JsonIdle
    /\ WalletIdle
    /\ TxInit
    /\ MintIdle
    /\ MeltIdle
    /\ AuthIdle
    /\ MeltResponseIdle
    /\ MeltRequestIdle
    /\ SumIdle
    /\ MintRequestIdle
    /\ LdkIdle

NextTx ==
    /\ TxNext
    /\ UNCHANGED <<settingsVars, jsonVars, walletVars, mintVars, meltVars,
                   authVars, meltResponseVars, meltRequestVars, sumVars,
                   mintRequestVars, ldkVars>>

SpecTx == InitTx /\ [][NextTx]_vars

InitMint ==
    /\ SettingsIdle
    /\ JsonIdle
    /\ WalletIdle
    /\ TxIdle
    /\ MintInit
    /\ MeltIdle
    /\ AuthIdle
    /\ MeltResponseIdle
    /\ MeltRequestIdle
    /\ SumIdle
    /\ MintRequestIdle
    /\ LdkIdle

NextMint ==
    /\ MintNext
    /\ UNCHANGED <<settingsVars, jsonVars, walletVars, txVars, meltVars,
                   authVars, meltResponseVars, meltRequestVars, sumVars,
                   mintRequestVars, ldkVars>>

SpecMint == InitMint /\ [][NextMint]_vars

InitMelt ==
    /\ SettingsIdle
    /\ JsonIdle
    /\ WalletIdle
    /\ TxIdle
    /\ MintIdle
    /\ MeltInit
    /\ AuthIdle
    /\ MeltResponseIdle
    /\ MeltRequestIdle
    /\ SumIdle
    /\ MintRequestIdle
    /\ LdkIdle

NextMelt ==
    /\ MeltNext
    /\ UNCHANGED <<settingsVars, jsonVars, walletVars, txVars, mintVars,
                   authVars, meltResponseVars, meltRequestVars, sumVars,
                   mintRequestVars, ldkVars>>

SpecMelt == InitMelt /\ [][NextMelt]_vars

InitAuth ==
    /\ SettingsIdle
    /\ JsonIdle
    /\ WalletIdle
    /\ TxIdle
    /\ MintIdle
    /\ MeltIdle
    /\ AuthInit
    /\ MeltResponseIdle
    /\ MeltRequestIdle
    /\ SumIdle
    /\ MintRequestIdle
    /\ LdkIdle

NextAuth ==
    /\ AuthNext
    /\ UNCHANGED <<settingsVars, jsonVars, walletVars, txVars, mintVars,
                   meltVars, meltResponseVars, meltRequestVars, sumVars,
                   mintRequestVars, ldkVars>>

SpecAuth == InitAuth /\ [][NextAuth]_vars

InitMeltResponse ==
    /\ SettingsIdle
    /\ JsonIdle
    /\ WalletIdle
    /\ TxIdle
    /\ MintIdle
    /\ MeltIdle
    /\ AuthIdle
    /\ MeltResponseInit
    /\ MeltRequestIdle
    /\ SumIdle
    /\ MintRequestIdle
    /\ LdkIdle

NextMeltResponse ==
    /\ MeltResponseNext
    /\ UNCHANGED <<settingsVars, jsonVars, walletVars, txVars, mintVars,
                   meltVars, authVars, meltRequestVars, sumVars,
                   mintRequestVars, ldkVars>>

SpecMeltResponse == InitMeltResponse /\ [][NextMeltResponse]_vars

InitMeltRequest ==
    /\ SettingsIdle
    /\ JsonIdle
    /\ WalletIdle
    /\ TxIdle
    /\ MintIdle
    /\ MeltIdle
    /\ AuthIdle
    /\ MeltResponseIdle
    /\ MeltRequestInit
    /\ SumIdle
    /\ MintRequestIdle
    /\ LdkIdle

NextMeltRequest ==
    /\ MeltRequestNext
    /\ UNCHANGED <<settingsVars, jsonVars, walletVars, txVars, mintVars,
                   meltVars, authVars, meltResponseVars, sumVars,
                   mintRequestVars, ldkVars>>

SpecMeltRequest == InitMeltRequest /\ [][NextMeltRequest]_vars

InitSum ==
    /\ SettingsIdle
    /\ JsonIdle
    /\ WalletIdle
    /\ TxIdle
    /\ MintIdle
    /\ MeltIdle
    /\ AuthIdle
    /\ MeltResponseIdle
    /\ MeltRequestIdle
    /\ SumInit
    /\ MintRequestIdle
    /\ LdkIdle

NextSum ==
    /\ SumNext
    /\ UNCHANGED <<settingsVars, jsonVars, walletVars, txVars, mintVars,
                   meltVars, authVars, meltResponseVars, meltRequestVars,
                   mintRequestVars, ldkVars>>

SpecSum == InitSum /\ [][NextSum]_vars

InitMintRequest ==
    /\ SettingsIdle
    /\ JsonIdle
    /\ WalletIdle
    /\ TxIdle
    /\ MintIdle
    /\ MeltIdle
    /\ AuthIdle
    /\ MeltResponseIdle
    /\ MeltRequestIdle
    /\ SumIdle
    /\ MintRequestInit
    /\ LdkIdle

NextMintRequest ==
    /\ MintRequestNext
    /\ UNCHANGED <<settingsVars, jsonVars, walletVars, txVars, mintVars,
                   meltVars, authVars, meltResponseVars, meltRequestVars,
                   sumVars, ldkVars>>

SpecMintRequest == InitMintRequest /\ [][NextMintRequest]_vars

InitLdk ==
    /\ SettingsIdle
    /\ JsonIdle
    /\ WalletIdle
    /\ TxIdle
    /\ MintIdle
    /\ MeltIdle
    /\ AuthIdle
    /\ MeltResponseIdle
    /\ MeltRequestIdle
    /\ SumIdle
    /\ MintRequestIdle
    /\ LdkInit

NextLdk ==
    /\ LdkNext
    /\ UNCHANGED <<settingsVars, jsonVars, walletVars, txVars, mintVars,
                   meltVars, authVars, meltResponseVars, meltRequestVars,
                   sumVars, mintRequestVars>>

SpecLdk == InitLdk /\ [][NextLdk]_vars

\* Replays: one set of outputs requested again and again against the mint
\* quote, and one wallet task that writes proofs and their states.
ProofCalls == {"update_proofs", "update_proofs_state"}

InitReplay ==
    /\ SettingsIdle
    /\ JsonIdle
    /\ WalletIdle
    /\ TxInit
    /\ MintInit
    /\ MeltIdle
    /\ AuthIdle
    /\ MeltResponseIdle
    /\ MeltRequestIdle
    /\ SumIdle
    /\ MintRequestIdle
    /\ LdkIdle

TxReplayNext ==
    \/ WrapperCall("t1") /\ tx'["t1"].call.op \in ProofCalls
    \/ WrapperBegun("t1")
    \/ WrapperOperated("t1")
    \/ WrapperCommitted("t1")
    \/ WrapperAbandoned("t1")
    \/ TxReturn("t1")

MintReplayNext ==
    \/ RecordPayment
    \/ Tick
    \/ IssueRequested("i1")
    \/ IssueCommitted("i1")
    \/ IssueReturn("i1")

NextReplay ==
    \/ /\ MintReplayNext
       /\ UNCHANGED <<settingsVars, jsonVars, walletVars, txVars, meltVars,
                      authVars, meltResponseVars, meltRequestVars, sumVars,
                      mintRequestVars, ldkVars>>
    \/ /\ TxReplayNext
       /\ UNCHANGED <<settingsVars, jsonVars, walletVars, mintVars, meltVars,
                      authVars, meltResponseVars, meltRequestVars, sumVars,
                      mintRequestVars, ldkVars>>

SpecReplay == InitReplay /\ [][NextReplay]_vars

(***************************************************************************)
(* PROPERTIES                                                              *)
(***************************************************************************)

\* C1: under every interleaving of payment recordings and issuance requests
\* against a mint quote, two racing requests included, amount_issued never
\* exceeds amount_paid in a persisted state and amount_issued never decreases.
IssuedNeverExceedsPaid ==
    /\ [](mintQuote.amount_issued <= mintQuote.amount_paid)
    /\ [][mintQuote'.amount_issued >= mintQuote.amount_issued]_vars

\* Two requests raced on the quote: each would have passed on what it saw when
\* it arrived, one was issued and the other refused.
IssuersRaced ==
    /\ issuer["i1"].pc = "done" /\ issuer["i1"].result = "Ok"
    /\ issuer["i2"].pc = "done" /\ issuer["i2"].result = "Err"
    /\ issuer["i2"].seen_issued + issuer["i2"].amount <= mintQuote.amount_paid
    /\ issuer["i1"].seen_issued = issuer["i2"].seen_issued
    /\ now < mintQuote.expiry
    /\ mintQuote.amount_issued > 0

\* C2: in every state of a melt the input proofs are recorded spent exactly
\* when the quote is recorded Paid, a crash between sending the payment and
\* marking the proofs included.
ProofsSpentIffPaid == (inputProofs = "Spent") <=> (meltQuote.state = "Paid")

\* The process died with the payment sent, and recovery found it paid.
PaidAfterCrash ==
    /\ meltPc = "recovered"
    /\ backend = "paid"
    /\ meltQuote.state = "Paid"
    /\ inputProofs = "Spent"

\* A bolt11 object with exactly one top-level flag and one options member
\* carrying the opposite flag, in either order.
ConflictingFlags(members) ==
    /\ Cardinality({i \in 1..Len(members) : members[i].k = "method"}) = 1
    /\ Cardinality({i \in 1..Len(members) : members[i].k = "unit"}) = 1
    /\ Cardinality({i \in 1..Len(members) : members[i].k = FlagKey(sKind)}) = 1
    /\ Cardinality({i \in 1..Len(members) : members[i].k = "options"}) = 1
    /\ \A i \in 1..Len(members) : members[i].k \in {"method", "unit", FlagKey(sKind), "options"}
    /\ \E i, j, m \in 1..Len(members) :
          /\ members[m].k = "method" /\ members[m].v = "bolt11"
          /\ members[i].k = FlagKey(sKind)
          /\ members[j].k = "options"
          /\ members[j].v = (IF members[i].v = "true" THEN "{flag:false}" ELSE "{flag:true}")

\* The value of the top-level flag member.
TopLevelFlag(members) ==
    LET i == CHOOSE i \in 1..Len(members) : members[i].k = FlagKey(sKind) IN members[i].v

\* C3: reading bolt11 settings from an object with a top-level flag and a
\* conflicting flag under options succeeds and yields the top-level value,
\* whatever the order of the two members.
TopLevelFlagWins ==
    (sPhase = "parsed" /\ ConflictingFlags(sInput))
        => (sResult.ok /\ sResult.options = "Bolt11:" \o TopLevelFlag(sInput))

\* C4: writing settings whose options carry the flag emits the flag, with its
\* value, as a top-level member and emits no options member.
FlagWrittenAtTopLevel ==
    (sPhase = "written" /\ IsBolt11Options(sResult.options))
        => /\ \E i \in 1..Len(sOutput) :
                 sOutput[i] = [k |-> FlagKey(sKind), v |-> OptionsFlag(sResult.options)]
           /\ \A i \in 1..Len(sOutput) : sOutput[i].k # "options"

\* C5: a quote response accepted by deserialization has passed validate: none
\* is accepted with method fields that break their rule.
AcceptedResponseIsValid ==
    (jPhase = "parsed" /\ jResult.ok) => MintQuoteResponseValidate(jResult) = "Ok"

\* C6: a melt quote recorded as Paid or Failed keeps that state through every
\* status refresh, whatever the mint answers.
TerminalStateKept ==
    [][\A t \in Tasks :
          LET q == wtask[t].quote_id IN
          (/\ wtask[t].pc = "st_write"
           /\ wtask'[t].pc = "done"
           /\ localstore[q].state \in {"Paid", "Failed"})
              => localstore'[q].state = localstore[q].state]_vars

\* C7: after a backend call on a Pending quote timed out the quote is Unknown
\* and its inputs stay reserved, until reconciliation resolves it; an Unknown
\* quote leaves that state only by reconciliation, to Paid or Failed.
TimedOutStaysQuarantined ==
    /\ [](timedOut => (meltQuote.state = "Unknown" /\ inputProofs = "Pending"))
    /\ [][(meltQuote.state = "Unknown" /\ meltQuote'.state # "Unknown")
             => (meltPc' = "reconciling" /\ meltQuote'.state \in {"Paid", "Failed"})]_vars

\* The payment went through, the call timed out, and a reconciliation attempt
\* got no answer: the quote is still quarantined.
QuarantinedAfterTimeout ==
    /\ timedOut
    /\ meltPc = "reconciling"
    /\ backend = "paid"
    /\ meltQuote.state = "Unknown"
    /\ inputProofs = "Pending"

\* C8: between a status refresh's read of the stored quote and its write-back
\* no other operation's write to that quote takes effect.
NoWriteBetweenReadAndWriteBack ==
    \A t \in Tasks :
        wtask[t].pc = "st_write" => localstore[wtask[t].quote_id] = wtask[t].quote

\* C9: a wrapper call whose operation or commit fails returns an error and
\* leaves the committed tables as they were; the tables change only in the
\* step in which a commit takes effect, and then by the call's whole write set.
WritesVisibleOnlyByCommit ==
    [][/\ (Tables' # Tables) =>
             \E t \in Tasks :
                /\ tx[t].pc = "commit"
                /\ \/ tx'[t].pc = "done" /\ tx'[t].result = "Ok"
                   \/ tx'[t].pc = "abandoned"
                /\ kvStore' = AppliedKv(tx[t].writes)
                /\ keysetCounter' = AppliedCounter(tx[t].writes)
                /\ proofTable' = AppliedProofs(tx[t].writes)
       /\ \A t \in Tasks :
             (tx[t].pc \in {"begin", "op", "commit"} /\ tx'[t].pc = "done"
              /\ tx'[t].result = "Err")
                 => (Tables' = Tables /\ tx'[t].writes = NoWrites)]_vars

\* A kv_write whose commit failed: the error is returned and the value is not
\* in the table.
CommitFailedNothingVisible ==
    \E t \in Tasks :
        /\ tx[t].pc = "done" /\ tx[t].result = "Err" /\ tx[t].failed = "commit"
        /\ tx[t].call.op = "kv_write"
        /\ kvStore[tx[t].call.key] # tx[t].call.value

\* C10: abandoning a call after its commit leaves the committed effect in
\* place, and no step of a call up to its commit, its abandonment at a
\* suspension point before commit included, changes the committed tables.
AbandonmentChangesNothing ==
    [][\A t \in Tasks :
          (/\ tx'[t] # tx[t]
           /\ \/ tx'[t].pc \in {"begin", "op", "commit"}
              \/ tx'[t].pc = "abandoned" /\ tx[t].pc \in {"begin", "op", "done"})
              => Tables' = Tables]_vars

\* One call was abandoned after its commit and its increment is in place;
\* another was abandoned while its operation was pending and its value is not
\* in the table.
AbandonedBeforeAndAfterCommit ==
    /\ tx["t1"].pc = "abandoned" /\ tx["t1"].failed = "done"
    /\ tx["t1"].call.op = "increment_keyset_counter"
    /\ keysetCounter = tx["t1"].call.count
    /\ tx["t2"].pc = "abandoned" /\ tx["t2"].failed = "op"
    /\ tx["t2"].call.op = "kv_write"
    /\ kvStore[tx["t2"].call.key] # tx["t2"].call.value


\* A successful increment_keyset_counter call whose result the caller holds.
IncrementReturned(t) ==
    /\ tx[t].pc = "done"
    /\ tx[t].result = "Ok"
    /\ tx[t].call.op = "increment_keyset_counter"

\* The stored counter moves only when an increment commits, and then by the
\* call's count; a call that returns Ok returns the counter it stored.
CounterMovesByCommittedCounts ==
    [][/\ \A t \in Tasks :
             (/\ tx[t].pc = "commit"
              /\ tx[t].call.op = "increment_keyset_counter"
              /\ tx'[t].pc = "done"
              /\ tx'[t].result = "Ok")
                 => /\ keysetCounter' = keysetCounter + tx[t].call.count
                    /\ tx'[t].counter = keysetCounter'
       /\ (keysetCounter' # keysetCounter) =>
             \E t \in Tasks :
                /\ tx[t].pc = "commit"
                /\ tx'[t].pc \in {"done", "abandoned"}
                /\ tx[t].call.op = "increment_keyset_counter"
                /\ keysetCounter' = keysetCounter + tx[t].call.count]_vars

AuthLockRespected ==
    /\ [](\A t, u \in AuthTasks :
             (t # u /\ atask[t].pc \in WriteSectionPcs)
                 => atask[u].pc \notin (ReadSectionPcs \cup WriteSectionPcs))
    /\ [][\A t \in AuthTasks :
             (atask[t].pc = "r_lock" /\ atask'[t].pc = "r_wait")
                 => \E u \in AuthTasks :
                       /\ atask[u].op = "set_auth_client"
                       /\ atask[u].pc \in WriteSectionPcs \cup {"w_wait"}]_vars

\* Two readers are inside their read sections at once while a writer waits
\* for both.
TwoReadersInsideWriterWaits ==
    /\ atask["a1"].pc = "r_inner"
    /\ atask["a2"].pc = "r_inner"
    /\ atask["a3"].pc = "w_wait"
    /\ rwReaders = {"a1", "a2"}


\* C14: when the JSON object of a Lightning melt-quote response carries a state
\* string that names a known state, and the other required members are there,
\* the deserialized state is that state whatever paid says (true, false,
\* absent or not a boolean), and the paid of the result follows the state.
StateStringIsAuthoritative ==
    \A s \in MeltStates :
        (/\ mrPhase = "parsed"
         /\ mrJson.state = JsonString(MeltQuoteStateDisplay(s))
         /\ IsJsonString(mrJson.quote)
         /\ IsU64(mrJson.amount)
         /\ IsU64(mrJson.fee_reserve)
         /\ IsU64(mrJson.expiry))
            => /\ mrResult.ok
               /\ mrResult.state = s
               /\ mrResult.paid = (IF s = "Paid" THEN "true" ELSE "false")

\* A peer's response says "UNPAID" with paid true, and is read as Unpaid.
StateContradictsPaid ==
    /\ mrPhase = "parsed"
    /\ mrValue = MeltResponseError(None)
    /\ mrJson.state = JsonString("UNPAID")
    /\ mrJson.paid = JsonBool("true")
    /\ mrResult.ok
    /\ mrResult.state = "Unpaid"


\* C15: when the JSON object of a Lightning melt-quote response carries no
\* state (and its quote, amount and fee_reserve are well formed), paid alone
\* decides: true gives Paid, false gives Unpaid, and with paid absent too the
\* deserialization fails with "State or paid must be defined".
PaidDecidesWithoutState ==
    (/\ mrPhase = "parsed"
     /\ mrJson.state = Absent
     /\ IsJsonString(mrJson.quote)
     /\ IsU64(mrJson.amount)
     /\ IsU64(mrJson.fee_reserve))
        => /\ (mrJson.paid = JsonBool("true") /\ IsU64(mrJson.expiry))
                  => (mrResult.ok /\ mrResult.state = "Paid" /\ mrResult.paid = "true")
           /\ (mrJson.paid = JsonBool("false") /\ IsU64(mrJson.expiry))
                  => (mrResult.ok /\ mrResult.state = "Unpaid" /\ mrResult.paid = "false")
           /\ mrJson.paid = Absent
                  => (~mrResult.ok /\ mrResult.err = "State or paid must be defined")

\* A response without state and without paid has been refused, although every
\* other member is there.
NeitherStateNorPaid ==
    /\ mrPhase = "parsed"
    /\ mrJson.state = Absent
    /\ mrJson.paid = Absent
    /\ IsJsonString(mrJson.quote)
    /\ IsU64(mrJson.amount)
    /\ IsU64(mrJson.fee_reserve)
    /\ IsU64(mrJson.expiry)
    /\ mrResult.err = "State or paid must be defined"


\* C16: an unknown quote state string is always rejected. from_str of a melt
\* state accepts exactly UNPAID, PAID, PENDING, UNKNOWN, FAILED and from_str
\* of a mint state exactly UNPAID, PAID, ISSUED, each giving the state that
\* displays as that string; every other string gives UnknownState; and the
\* melt-response deserializer fails on an unrecognized state string even when
\* a paid flag is there.
UnknownStateStringRejected ==
    LET known == IF qsKind = "melt"
                     THEN {"UNPAID", "PAID", "PENDING", "UNKNOWN", "FAILED"}
                     ELSE {"UNPAID", "PAID", "ISSUED"}
        states == IF qsKind = "melt" THEN MeltStates ELSE MintStates
    IN
    /\ mrPhase \in {"state_parsed", "state_shown"}
          => /\ qsInput \notin known => qsParsed = "Err:UnknownState"
             /\ qsInput \in known => qsParsed \in states
    /\ mrPhase = "state_shown" => qsShown = qsInput
    /\ (/\ mrPhase = "parsed"
        /\ IsJsonString(mrJson.state)
        /\ StringOf(mrJson.state) \notin {"UNPAID", "PAID", "PENDING", "UNKNOWN", "FAILED"})
          => /\ ~mrResult.ok
             /\ (/\ IsJsonString(mrJson.quote)
                 /\ IsU64(mrJson.amount)
                 /\ IsU64(mrJson.fee_reserve))
                    => mrResult.err = "Unknown state"

\* A response whose state is "paid" in lower case has been refused although
\* its paid flag is true and every other member is there.
UnknownStateRefusedDespitePaid ==
    /\ mrPhase = "parsed"
    /\ mrJson.state = JsonString("paid")
    /\ mrJson.paid = JsonBool("true")
    /\ IsJsonString(mrJson.quote)
    /\ IsU64(mrJson.amount)
    /\ IsU64(mrJson.fee_reserve)
    /\ IsU64(mrJson.expiry)
    /\ mrResult.err = "Unknown state"


\* C17: serializing and then deserializing any MeltQuoteBolt11Response gives a
\* value equal to the original in every field (quote, amount, fee_reserve,
\* paid, state, expiry, payment_preimage, change, request, unit), for every
\* combination of paid (None, true, false) and state.
RoundTripKeepsMeltResponse ==
    (mrPhase = "parsed" /\ mrValue.ok) => mrResult = mrValue


\* C18: serializing a MeltQuoteRequest<Bolt11MeltRequestFields> puts the
\* payment option (mpp or amountless) as a top-level key beside request and
\* unit, never under a nested key, and deserializing that output gives a
\* request equal to the original in request, unit and option, for every
\* option value including none.
OptionFlattenedAndRoundTrips ==
    /\ (mqPhase \in {"wire", "parsed"} /\ mqValue.ok)
          => /\ mqJson.request = JsonString(mqValue.request)
             /\ mqJson.unit = JsonString(mqValue.unit)
             /\ mqJson.options = AbsentMember
             /\ mqJson.mpp = (IF mqValue.options.kind = "Mpp"
                                 THEN ObjectMember(JsonNumber(mqValue.options.amount))
                                 ELSE AbsentMember)
             /\ mqJson.amountless = (IF mqValue.options.kind = "Amountless"
                                        THEN ObjectMember(JsonNumber(mqValue.options.amount))
                                        ELSE AbsentMember)
    /\ (mqPhase = "parsed" /\ mqValue.ok)
          => /\ mqResult.ok
             /\ mqResult.request = mqValue.request
             /\ mqResult.unit = mqValue.unit
             /\ mqResult.options = mqValue.options

\* A request with an mpp option has been written and read back with it.
MppRequestReadBack ==
    /\ mqPhase = "parsed"
    /\ mqValue.ok
    /\ mqValue.options = [kind |-> "Mpp", amount |-> 1]
    /\ mqJson.mpp = ObjectMember(JsonNumber(1))
    /\ mqResult.options = [kind |-> "Mpp", amount |-> 1]


\* C19: a mint-quote response JSON object is accepted by deserialization when
\* it carries the five fixed fields quote, request, unit, state and expiry (the
\* state being a known one) together with the rail's own required fields, and
\* is rejected when any one of those five fixed fields is absent.
FiveFixedFieldsDecide ==
    LET five == {"quote", "request", "unit", "state", "expiry"} IN
    jPhase = "parsed"
        => /\ (/\ five \subseteq jInput.present
               /\ Bolt12MintResponseKeys \subseteq jInput.present
               /\ jInput.state \in {"UNPAID", "PAID", "ISSUED"})
                  => jResult.ok
           /\ ~(five \subseteq jInput.present) => ~jResult.ok


\* The sum of a collection of amounts as a number, without any width.
RECURSIVE ExactSum(_)
ExactSum(amounts) ==
    IF amounts = <<>> THEN 0 ELSE Head(amounts) + ExactSum(Tail(amounts))

\* C20: MintRequest::total_amount and MeltRequest::inputs_amount return the
\* exact arithmetic sum of the amounts of all outputs (inputs), or the error
\* AmountOverflow when that sum does not fit the amount type; never a wrapped
\* or truncated sum; and an empty collection sums to zero.
SumIsExactOrOverflow ==
    saPhase = "summed"
        => /\ ExactSum(saAmounts) <= AmountMaxValue
                  => saResult = SumOk(ExactSum(saAmounts))
           /\ ExactSum(saAmounts) > AmountMaxValue
                  => saResult = SumErr("AmountOverflow")
           /\ saAmounts = <<>> => saResult = SumOk(0)

\* Outputs whose sum is one more than the amount type holds have been refused.
OverflowRefused ==
    /\ saPhase = "summed"
    /\ saKind = "mint"
    /\ saAmounts = <<AmountMaxValue, 1>>
    /\ saResult = SumErr("AmountOverflow")


\* C21: Bolt12MintResponseFields::validate returns an error exactly when
\* amount_issued > amount_paid and Ok for every pair with amount_issued <=
\* amount_paid, equality and both zero included; the validate of the
\* MintQuoteResponse carrying those fields returns the same result.
ValidateRejectsIssuedAbovePaid ==
    jPhase = "validated"
        => /\ jResult.amount_issued > jResult.amount_paid
                  => jValid.fields = "Issued amount cannot exceed paid amount"
           /\ jResult.amount_issued <= jResult.amount_paid => jValid.fields = "Ok"
           /\ jValid.response = jValid.fields

\* A response with amount_issued equal to amount_paid, both above zero, has
\* been validated and found in order.
IssuedEqualsPaidValidated ==
    /\ jPhase = "validated"
    /\ jResult.amount_issued = jResult.amount_paid
    /\ jResult.amount_paid > 0
    /\ jValid.response = "Ok"


\* C22: no melt-quote request built for a custom rail carries the rail name in
\* its body. melt_quote_custom sends a body holding only request and unit and
\* passes the method as a separate path argument; converting that
\* SimpleMeltQuoteRequest into MeltQuoteRequest::Custom keeps request and unit,
\* leaves the extra data empty and stores no rail name in the method field.
RailNameNeverInBody ==
    \A t \in Tasks :
        /\ wtask[t].pc \in {"mq_post", "mq_add"}
              => /\ wtask[t].posted.path = wtask[t].method
                 /\ wtask[t].posted.body.request = wtask[t].request
                 /\ wtask[t].posted.body.unit = WalletUnit
                 /\ wtask[t].posted.body.method_fields = {}
                 /\ wtask[t].posted.body.request \notin CustomMethods
                 /\ wtask[t].posted.body.unit \notin CustomMethods
        /\ wtask[t].converted # NoConverted
              => /\ wtask[t].converted.kind = "Custom"
                 /\ wtask[t].converted.request = wtask[t].posted.body.request
                 /\ wtask[t].converted.unit = wtask[t].posted.body.unit
                 /\ wtask[t].converted.data = {}
                 /\ wtask[t].converted.method \notin CustomMethods

\* A request for the rail "paypal" has been posted and converted.
CustomRequestPostedAndConverted ==
    /\ wtask["t1"].pc = "mq_post"
    /\ wtask["t1"].posted.path = "paypal"
    /\ wtask["t1"].posted.body.request = "req"
    /\ wtask["t1"].converted.kind = "Custom"
    /\ wtask["t1"].converted.method = ""


\* The members of a JSON text as an object: the set of its key-value pairs.
ObjectOf(json) == {json[i] : i \in 1..Len(json)}

\* C23: for every amount, unit, optional description and optional pubkey, the
\* generic MintQuoteRequest<Bolt11MintRequestFields> and the legacy
\* MintQuoteBolt11Request built from the same values serialize to the same
\* JSON object: same keys, same values, an absent option omitted in both.
LegacyAndGenericRequestsAgree ==
    (nrLegacy # <<>> /\ nrGeneric # <<>>)
        => /\ ObjectOf(nrLegacy) = ObjectOf(nrGeneric)
           /\ \A k \in {"description", "pubkey"} :
                 nrArgs[k] = None
                     => \A i \in 1..Len(nrGeneric) :
                           nrGeneric[i].k # k /\ nrLegacy[i].k # k
           /\ \A k \in {"description", "pubkey"} :
                 nrArgs[k] # None
                     => [k |-> k, v |-> JsonString(nrArgs[k])] \in ObjectOf(nrGeneric)

\* Both requests have been written for a description without a pubkey.
BothRequestsWritten ==
    /\ nrLegacy # <<>>
    /\ nrGeneric # <<>>
    /\ nrArgs.description = "memo"
    /\ nrArgs.pubkey = None
    /\ Len(nrGeneric) = 3


\* C24: set_auth_client keeps the wallet's and the client's auth wallet in
\* sync. Whenever no set_auth_client call holds the write lock, both hold the
\* same value; the two values change only by the call that holds the write
\* lock and only to its argument, so after the calls have completed both hold
\* the argument of the call that took the lock last; and get_auth_wallet
\* returns that value.
WalletAndClientInSync ==
    /\ [](rwWriter = None => authWallet = clientAuthWallet)
    /\ [][/\ authWallet' # authWallet
                => (rwWriter # None /\ authWallet' = atask[rwWriter].arg)
          /\ clientAuthWallet' # clientAuthWallet
                => (rwWriter # None /\ clientAuthWallet' = atask[rwWriter].arg)
          /\ \A t \in AuthTasks :
                (atask[t].pc = "w_client" /\ atask'[t].pc = "done")
                    => (authWallet' = atask[t].arg /\ clientAuthWallet' = atask[t].arg)
          /\ \A t \in AuthTasks :
                (/\ atask[t].op = "get_auth_wallet"
                 /\ atask[t].pc = "r_in"
                 /\ atask'[t].pc = "done")
                    => (atask'[t].result = authWallet
                        /\ authWallet = clientAuthWallet)]_vars

\* Two set_auth_client calls with different arguments have completed, the one
\* that set "w1" last, and a get_auth_wallet call has returned "w1".
LastWriterWins ==
    /\ atask["a1"] = [IdleAuthTask EXCEPT
                         !.pc = "done", !.op = "set_auth_client", !.result = "Ok"]
    /\ atask["a2"].pc = "done"
    /\ atask["a2"].op = "set_auth_client"
    /\ atask["a2"].arg = "w1"
    /\ atask["a3"].pc = "done"
    /\ atask["a3"].op = "get_auth_wallet"
    /\ atask["a3"].result = "w1"
    /\ authWallet = "w1"
    /\ clientAuthWallet = "w1"


\* The five calls that use the auth wallet.
AuthWalletUsers ==
    {"mint_blind_auth", "get_unspent_auth_proofs", "set_cat", "set_refresh_token",
     "refresh_access_token"}

\* C25: while no auth wallet is set, mint_blind_auth and
\* get_unspent_auth_proofs return the error AuthSettingsUndefined, and set_cat,
\* set_refresh_token and refresh_access_token return Ok without storing any
\* token; none of the five changes whether an auth wallet is set.
WithoutAuthWalletNothingStored ==
    [][\A t \in AuthTasks :
          (atask[t].op \in AuthWalletUsers /\ atask'[t] # atask[t])
              => /\ authWallet' = authWallet
                 /\ clientAuthWallet' = clientAuthWallet
                 /\ (atask[t].pc = "r_in" /\ authWallet = None)
                       => /\ atask'[t].pc = "done"
                          /\ authTokens' = authTokens
                          /\ atask[t].op \in {"mint_blind_auth", "get_unspent_auth_proofs"}
                                => atask'[t].result = "Err:AuthSettingsUndefined"
                          /\ atask[t].op \in {"set_cat", "set_refresh_token",
                                              "refresh_access_token"}
                                => atask'[t].result = "Ok"]_vars

\* With no auth wallet set, mint_blind_auth has failed and set_cat has
\* returned Ok, and no token is stored.
CalledWithoutAuthWallet ==
    /\ authWallet = None
    /\ authTokens = {}
    /\ atask["a1"].pc = "done"
    /\ atask["a1"].op = "mint_blind_auth"
    /\ atask["a1"].result = "Err:AuthSettingsUndefined"
    /\ atask["a2"].pc = "done"
    /\ atask["a2"].op = "set_cat"
    /\ atask["a2"].result = "Ok"
    /\ atask["a3"].pc = "idle"


\* C26: melt_quote_custom stores a melt quote only after the mint has
\* answered. On success exactly one quote is written, equal to the returned
\* one, with id, amount, state and expiry from the mint's response, the
\* caller's request, the wallet's unit, fee_reserve zero, no payment preimage
\* and payment method Custom(method); when the keyset refresh or the mint
\* request fails, the local store is unchanged.
QuoteStoredOnlyAfterAnswer ==
    [][\A t \in Tasks :
          LET old == wtask[t]
              new == wtask'[t]
          IN
          (old.pc \in {"idle", "mq_refresh", "mq_post", "mq_add"} /\ new # old
              /\ new.pc \in {"mq_refresh", "mq_post", "mq_add", "done"}
              /\ (old.pc = "idle" => new.pc = "mq_refresh"))
              => /\ (old.pc # "mq_add" \/ new.result = "Err")
                       => localstore' = localstore
                 /\ (old.pc = "mq_add" /\ new.result = "Ok")
                       => /\ new.retQuote =
                                [id |-> old.response.quote,
                                 amount |-> old.response.amount,
                                 request |-> old.request,
                                 unit |-> WalletUnit,
                                 fee_reserve |-> 0,
                                 state |-> old.response.state,
                                 expiry |-> old.response.expiry,
                                 payment_preimage |-> None,
                                 payment_method |-> "Custom:" \o old.method]
                          /\ localstore'[new.retQuote.id] = new.retQuote
                          /\ \A q \in QuoteIds \ {new.retQuote.id} :
                                localstore'[q] = localstore[q]]_vars

\* A melt_quote_custom call has returned its quote and the store holds it,
\* while another call failed and left nothing.
QuoteStoredAndReturned ==
    /\ wtask["t1"].pc = "done"
    /\ wtask["t1"].result = "Ok"
    /\ wtask["t1"].retQuote.id = "q1"
    /\ wtask["t1"].retQuote.payment_method = "Custom:paypal"
    /\ localstore["q1"] = wtask["t1"].retQuote
    /\ localstore["q2"] = NoQuote
    /\ wtask["t2"].pc = "done"
    /\ wtask["t2"].result = "Err"


ReadOutcome(last) ==
    IF last \in {Never, Removed} THEN [result |-> "NotFound", bytes |-> None]
                                 ELSE [result |-> "Ok", bytes |-> last]

\* C28: after any sequence of successful write and remove calls, read of a
\* (primary, secondary, key) returns the bytes of the last successful write to
\* it when no later remove happened, and fails with NotFound when the key was
\* never written or was removed last (a read the database itself fails is the
\* only other outcome); read and list leave the store unchanged; a remove that
\* returns Ok has deleted the row, whatever the lazy flag is.
ReadReturnsLastWrite ==
    /\ [](\A x \in LdkPaths :
             ldkStore[x] = ReadOutcome(ldkLast[x]).bytes)
    /\ []((ldkCall.pc = "done" /\ ldkCall.op = "read" /\ ldkCall.result # "Other")
             => [result |-> ldkCall.result, bytes |-> ldkCall.bytes]
                    = ReadOutcome(ldkLast[PathOf(ldkCall)]))
    /\ []((ldkCall.pc = "done" /\ ldkCall.op = "list" /\ ldkCall.result = "Ok")
             => ldkCall.keys = {k \in LdkKeys :
                    ldkLast[<<ldkCall.primary, ldkCall.secondary, k>>]
                        \notin {Never, Removed}})
    /\ []((ldkCall.pc = "done" /\ ldkCall.op = "remove" /\ ldkCall.result = "Ok")
             => ldkStore[PathOf(ldkCall)] = None)
    /\ [][ldkCall.op \in {"read", "list"} => ldkStore' = ldkStore]_vars
    /\ [][ldkStore' # ldkStore
             => (ldkCall.pc = "commit" /\ ldkCall'.result = "Ok")]_vars

\* A key was last written with the empty buffer, the same key of the other
\* primary namespace was never written and some row was removed: read has just
\* returned the empty bytes.
ReadAfterRewrite ==
    /\ ldkCall.pc = "done"
    /\ ldkCall.op = "read"
    /\ ldkCall.result = "Ok"
    /\ ldkCall.bytes = ""
    /\ ldkLast[PathOf(ldkCall)] = ""
    /\ \E p \in LdkPrimaries \ {ldkCall.primary} :
          ldkLast[<<p, ldkCall.secondary, ldkCall.key>>] = Never
    /\ \E x \in LdkPaths : ldkLast[x] = Removed


\* The input carries the capability flag: as a top-level member, or inside an
\* options object.
FlagInInput(kind, members) ==
    \E i \in 1..Len(members) :
        \/ members[i].k = FlagKey(kind)
        \/ members[i].k = "options" /\ members[i].v \in {"{flag:true}", "{flag:false}"}

\* C29: a MintMethodSettings or MeltMethodSettings read from JSON with a method
\* other than bolt11 has options = None, whatever flag or options block the
\* input carries; with method bolt11, options is Some exactly when a flag was
\* found at the top level or under options; the options are never Custom.
DeserializedOptionsFollowMethod ==
    (sPhase = "parsed" /\ sInput # <<>> /\ sResult.ok)
        => /\ sResult.options \in {None, "Bolt11:true", "Bolt11:false"}
           /\ sResult.method # "bolt11" => sResult.options = None
           /\ sResult.method = "bolt11"
                 => (sResult.options # None <=> FlagInInput(sKind, sInput))

\* Mint settings of a method other than bolt11 were read from an input with
\* the flag at the top level and an options block with the flag.
CustomMethodWithFlags ==
    /\ sPhase = "parsed"
    /\ sKind = "mint"
    /\ sResult.ok
    /\ sResult.method = "custom"
    /\ sResult.options = None
    /\ \E i, j \in 1..Len(sInput) :
          /\ sInput[i].k = "description"
          /\ sInput[j] = [k |-> "options", v |-> "{flag:true}"]


\* C30: every MeltQuoteBolt11Response produced by deserialization has paid
\* present and equal to (state == Paid): with a state string in the input its
\* paid flag is discarded, and a response in state Pending, Unknown, Failed or
\* Unpaid has paid = false.
PaidFollowsState ==
    (mrPhase = "parsed" /\ mrResult.ok)
        => /\ mrResult.paid \in {"true", "false"}
           /\ mrResult.paid = "true" <=> mrResult.state = "Paid"
           /\ mrResult.state \in {"Pending", "Unknown", "Failed", "Unpaid"}
                 => mrResult.paid = "false"
           /\ IsJsonString(mrJson.state)
                 => mrResult.paid =
                       (IF mrJson.state = JsonString("PAID") THEN "true" ELSE "false")

\* A response that says paid: true next to the state FAILED was read: the
\* result is Failed with paid = false.
PaidFlagDiscarded ==
    /\ mrPhase = "parsed"
    /\ mrJson.paid = JsonBool("true")
    /\ mrJson.state = JsonString("FAILED")
    /\ mrResult.ok
    /\ mrResult.state = "Failed"
    /\ mrResult.paid = "false"

====
